---- MODULE Spec2Model ----
(***************************************************************************)
(* Model of the mDL DeviceResponse verifier (Verifier.verify and the three *)
(* per-document phases verifyIssuerSignature, verifyDeviceSignature and    *)
(* verifyData) together with the check callbacks of checkCallback.js.      *)
(*                                                                         *)
(* One call of verify is followed from the call to the settlement of its   *)
(* promise.  The content of the DeviceResponse and the results of the      *)
(* external primitives (X.509 chain validation, COSE verification, digest  *)
(* computation, the clock) are inputs; an input is drawn when the code     *)
(* first reads it and is then kept in the state.  The inputs range over    *)
(* the responses that differ from a nominal, fully valid response in at    *)
(* most MaxAnomalies places.                                               *)
(***************************************************************************)
EXTENDS Integers, Sequences, FiniteSets, TLC

\* Bounds of the model.
MaxDocs == 2
MaxAnomalies == 2
MaxElems == 2
MaxTime == 3
MaxDigests == 3
MaxAdded == 3
MaxSecs == 2
MaxRoundTrips == 2

VARIABLES
    pc,         \* position of the verify call
    opts,       \* the options of the call
    dr,         \* the parsed DeviceResponse (version, number of documents)
    cur,        \* index of the document of the current loop iteration
    docs,       \* the documents read so far, as the phases read them
    log,        \* the assessments delivered to onCheck, in delivery order
    error,      \* the error the promise of verify was rejected with
    pending,    \* [doc, ns]: namespace callbacks waiting for their elements' verification
    rejected,   \* first rejection seen by the Promise.all of verifyData
    anomalies,  \* how many inputs read so far differ from the nominal response
    diag,       \* the getDiagnosticInformation call around verify, if there is one
    other,      \* a second call on the same Verifier, suspended at an await
    issuersRootCertificates,    \* the field of the Verifier
    mdoc,       \* an MDoc under construction: documents, version, status
    addDocumentCall,    \* the last call of MDoc.addDocument and its outcome
    tdate       \* a Date on its way through the CBOR tag-0 extension

vars == <<pc, opts, dr, cur, docs, log, error, pending, rejected, anomalies, diag, other, issuersRootCertificates, mdoc, addDocumentCall, tdate>>

----------------------------------------------------------------------------
\* Program constants.

MDL_NAMESPACE == "org.iso.18013.5.1"
OTHER_NAMESPACE == "org.example.other"
DIGEST_ALGS == {"SHA-256", "SHA-384", "SHA-512"}

Categories == {"DOCUMENT_FORMAT", "ISSUER_AUTH", "DEVICE_AUTH", "DATA_INTEGRITY"}

\* The texts of the checks.
CheckVersionPresent == "Device Response must include \"version\" element."
CheckVersionSupported == "Device Response version must be 1.0 or greater"
CheckHasDocument == "Device Response must include at least one document."
CheckCertificate == "Issuer certificate must be valid"
CheckIssuerSignature == "Issuer signature must be valid"
CheckSignedDate == "The MSO signed date must be within the validity period of the certificate"
CheckMsoValid == "The MSO must be valid at the time of verification"
CheckCountryName == "Country name (C) must be present in the issuer certificate's subject distinguished name"
CheckDeviceSigned == "The document is not signed by the device."
CheckProofPresent == "Device Auth must contain a deviceSignature or deviceMac element"
CheckTranscript == "Session Transcript Bytes missing from options, aborting device signature check"
CheckDeviceKey == "Issuer signature must contain the device key."
CheckDeviceSignature == "Device signature must be valid"
CheckMacPresent == "Device MAC must be present when using MAC authentication"
CheckMacAlg == "Device MAC must use alg 5 (HMAC 256/256)"
CheckEphemeralKey == "Ephemeral private key must be present when using MAC authentication"
CheckDeviceMac == "Device MAC must be valid"
CheckDigestAlgorithm == "Issuer Auth must include a supported digestAlgorithm element"
CheckNamespaceDigests(ns) == "Issuer Auth must include digests for namespace: " \o ns
CheckElementDigest(ns, id) ==
    "The calculated digest for " \o ns \o "/" \o id \o " attribute must match the digest in the issuerAuth element"
CheckIssuingCountry ==
    "The 'issuing_country' if present must match the 'countryName' in the subject field within the DS certificate"
CheckIssuingJurisdiction ==
    "The 'issuing_jurisdiction' if present must match the 'stateOrProvinceName' in the subject field within the DS certificate"

----------------------------------------------------------------------------
\* Errors and assessments.

NoError == [name |-> "none", message |-> ""]
MDLError(message) == [name |-> "MDLError", message |-> message]
MDLParseError(message) == [name |-> "MDLParseError", message |-> message]
TypeError(message) == [name |-> "TypeError", message |-> message]
LibError(message) == [name |-> "Error", message |-> message]

\* An absent (undefined) reason.
NoReason == "<undefined>"

\* An assessment as a check site builds it, before a category is attached.
\* doc is the index of the document the check is about (0: the response).
Item(doc, status, check, reason) ==
    [doc |-> doc, category |-> "<none>", status |-> status, check |-> check, reason |-> reason]

\* A status that is a warning where the check does not pass.
PassFailWarning(b) == IF b THEN "PASSED" ELSE "WARNING"

PassFail(b) == IF b THEN "PASSED" ELSE "FAILED"

\* verification.reason ?? verification.check
ReasonOrCheck(item) == IF item.reason = NoReason THEN item.check ELSE item.reason

----------------------------------------------------------------------------
\* Control flow of a handler: what a piece of code delivered to onCheck and
\* the error it ended with (NoError when it completed).

Skip == [out |-> <<>>, err |-> NoError]
Throw(e) == [out |-> <<>>, err |-> e]

\* Sequential composition: the second piece runs only if the first completed.
Then(a, b) ==
    IF a.err # NoError THEN a ELSE [out |-> a.out \o b.out, err |-> b.err]

\* try { a } catch (err) { h }, where h is the catch block run on a's error.
TryCatch(a, h) ==
    IF a.err = NoError THEN a ELSE [out |-> a.out \o h.out, err |-> h.err]

----------------------------------------------------------------------------
\* checkCallback.js

\* The callbacks a caller may pass as options.onCheck: none ("default"), one
\* that only records the assessment ("collect"), one that records it and
\* then calls original(item) ("delegate").
Modes == {"default", "collect", "delegate"}

\* A default callback that only logs.
defaultCallbackLogOnly(item) == NoError

\* defaultCallback: throws MDLError(reason ?? check) on FAILED.
defaultCallback(item) ==
    IF item.status # "FAILED" THEN NoError ELSE MDLError(ReasonOrCheck(item))

\* A built callback that does not hand original to the caller's callback,
\* which then cannot raise through it.
buildCallbackNoOriginal(mode, item) ==
    CASE mode = "default" -> defaultCallback(item)
      [] mode = "collect" -> NoError
      [] mode = "delegate" -> NoError

\* buildCallback(callback): the error (if any) the built callback ends with
\* when it is called with item.
buildCallback(mode, item) ==
    CASE mode = "default" -> defaultCallback(item)
      [] mode = "collect" -> NoError
      [] mode = "delegate" -> defaultCallback(item)

\* One call onCheck(item): the item is delivered, and the call may throw.
onCheck(mode, item) == [out |-> <<item>>, err |-> buildCallback(mode, item)]

\* An onCatCheck in which a category of the item wins over that of the phase:
\* onCheck({ category, ...item }).
onCatCheckItemFirst(mode, category, item) == onCheck(mode, item)

\* onCatCheck(onCheck, category)(item): the category of the phase replaces
\* the item's.
onCatCheck(mode, category, item) ==
    onCheck(mode, [item EXCEPT !.category = category])

----------------------------------------------------------------------------
\* Inputs: the call options.

Options ==
    [mode : Modes,
     encodedSessionTranscript : BOOLEAN,       \* supplied or not
     ephemeralReaderKey : BOOLEAN,             \* supplied or not
     disableCertificateChainValidation : BOOLEAN]

OptionsCost(o) ==
    (IF o.encodedSessionTranscript THEN 0 ELSE 1)
    + (IF o.ephemeralReaderKey THEN 0 ELSE 1)
    + (IF o.disableCertificateChainValidation THEN 1 ELSE 0)

\* Inputs: the parsed response.  A version is major.minor, or is no version
\* string (null).
NoVersion == [defined |-> FALSE]
Version(major, minor) == [defined |-> TRUE, major |-> major, minor |-> minor]
Versions == {NoVersion, Version(0, 9), Version(1, 0), Version(1, 9), Version(2, 0)}

NotParsed == [parsed |-> FALSE]
Responses == [parsed : {TRUE}, version : Versions, nDocs : 0..MaxDocs]

\* The nominal response is version 1.0 and holds one document.
ResponseCost(r) ==
    IF ~r.parsed THEN 1
    ELSE (IF r.version = Version(1, 0) THEN 0 ELSE 1)
         + (IF r.nDocs = 0 THEN 1 ELSE r.nDocs - 1)

\* compareVersions(v, '1.0') of the compare-versions package: -1, 0 or 1
\* coded as 0, 1, 2; the package throws on a version that is no string.
compareVersions(v) ==
    IF v.major < 1 THEN 0
    ELSE IF v.major = 1 /\ v.minor = 0 THEN 1
    ELSE 2

----------------------------------------------------------------------------
\* Inputs: the issuer half of a document.

Times == 0..MaxTime
DocTypes == {"org.iso.18013.5.1.mDL", "org.example.other.doc"}
NoName == "<undefined>"

NoCertificate == [absent |-> TRUE]
Certificates ==
    [notBefore : {1}, notAfter : {2},
     countryName : {"US", NoName},
     stateOrProvince : {"CA", NoName},
     issuerName : BOOLEAN]

NoValidityInfo == [absent |-> TRUE]
ValidityInfos == [signed : Times, validFrom : {1}, validUntil : {2}]

IssuerInputs ==
    [docType : DocTypes,                          \* document.docType
     msoDocType : DocTypes,                       \* decodedPayload.docType
     certificate : {NoCertificate} \cup Certificates,
     chainValid : BOOLEAN,                        \* outcome of verifyX509Chain
     signatureValid : BOOLEAN,                    \* outcome of issuerAuth.verify
     validityInfo : {NoValidityInfo} \cup ValidityInfos,
     now : Times]                                 \* new Date()

Differs(a, b) == IF a = b THEN 0 ELSE 1

CertificateCost(c) ==
    IF c = NoCertificate THEN 1
    ELSE Differs(c.countryName, "US") + Differs(c.stateOrProvince, "CA")
         + Differs(c.issuerName, TRUE)

IssuerCost(a) ==
    Differs(a.docType, "org.iso.18013.5.1.mDL")
    + Differs(a.msoDocType, "org.iso.18013.5.1.mDL")
    + CertificateCost(a.certificate)
    + Differs(a.chainValid, a.certificate # NoCertificate)
    + Differs(a.signatureValid, a.certificate # NoCertificate)
    + (IF a.validityInfo = NoValidityInfo THEN 1 ELSE Differs(a.validityInfo.signed, 1))
    + Differs(a.now, 1)

\* Without a leaf certificate there is nothing to validate or to verify with.
IssuerWellFormed(a) ==
    a.certificate = NoCertificate => (~a.chainValid /\ ~a.signatureValid)

\* The issuer inputs of cost at most k.
IssuerInputsWithin ==
    [k \in 0..MaxAnomalies |->
        {a : a \in {b \in IssuerInputs : IssuerWellFormed(b) /\ IssuerCost(b) <= k}}]

Unread == [unread |-> TRUE]

----------------------------------------------------------------------------
\* Inputs: the device half of a document.

Outcomes == {"true", "false", "throw"}      \* of an external verification

DeviceKeys == {"valid", "unimportable", "absent"}   \* deviceKeyInfo.deviceKey

DeviceInputs ==
    [deviceSigned : BOOLEAN,                 \* document instanceof DeviceSignedDocument
     deviceAuth : [deviceSignature : BOOLEAN, deviceMac : BOOLEAN],
     deviceKey : DeviceKeys,
     signatureVerify : Outcomes,             \* outcome of Sign1(...).verify(deviceKey)
     macSupportedAlg : BOOLEAN,              \* deviceMac.hasSupportedAlg()
     macVerify : Outcomes]                   \* outcome of deviceMac.verify(ephemeralMacKey, ...)

NominalDeviceAuth == [deviceSignature |-> TRUE, deviceMac |-> FALSE]

\* What is absent has no content: an issuer-only document has no deviceAuth,
\* an absent proof has no outcome.
DeviceWellFormed(d) ==
    /\ ~d.deviceSigned => d.deviceAuth = NominalDeviceAuth
    /\ ~(d.deviceSigned /\ d.deviceAuth.deviceSignature) => d.signatureVerify = "true"
    /\ ~(d.deviceSigned /\ d.deviceAuth.deviceMac) =>
            d.macSupportedAlg /\ d.macVerify = "true"

DeviceCost(d) ==
    Differs(d.deviceSigned, TRUE)
    + Differs(d.deviceAuth, NominalDeviceAuth)
    + Differs(d.deviceKey, "valid")
    + Differs(d.signatureVerify, "true")
    + Differs(d.macSupportedAlg, TRUE)
    + Differs(d.macVerify, "true")

\* The well-formed device inputs of cost at most k.
DeviceInputsWithin ==
    [k \in 0..MaxAnomalies |->
        {d : d \in {e \in DeviceInputs : DeviceWellFormed(e) /\ DeviceCost(e) <= k}}]

----------------------------------------------------------------------------
\* Inputs: the disclosed data of a document.

NameSpaceLists ==                            \* Object.keys(issuerSigned.nameSpaces)
    {<<>>, <<MDL_NAMESPACE>>, <<OTHER_NAMESPACE>>,
     <<MDL_NAMESPACE, OTHER_NAMESPACE>>, <<OTHER_NAMESPACE, MDL_NAMESPACE>>}

DigestAlgorithms == {"SHA-256", "SHA-384", "MD5", NoName}

Range(f) == {f[k] : k \in DOMAIN f}

DataInputs ==
    [digestAlgorithm : DigestAlgorithms,
     nameSpaces : NameSpaceLists,
     valueDigests : SUBSET {MDL_NAMESPACE, OTHER_NAMESPACE}]   \* its keys

\* Digests are kept for disclosed namespaces only.
DataWellFormed(n) == n.valueDigests \subseteq Range(n.nameSpaces)

DataCost(n) ==
    Differs(n.digestAlgorithm, "SHA-256")
    + Differs(n.nameSpaces, <<MDL_NAMESPACE>>)
    + Cardinality(Range(n.nameSpaces) \ n.valueDigests)

\* The well-formed data inputs of cost at most k.
DataInputsWithin ==
    [k \in 0..MaxAnomalies |->
        {n : n \in {m \in DataInputs : DataWellFormed(m) /\ DataCost(m) <= k}}]

\* The IssuerSignedItems of one namespace, with the outcome of ev.isValid.
ElementIds == {"issuing_country", "issuing_jurisdiction", "age_over_21"}

ElementValues(id) ==
    CASE id = "issuing_country" -> {"US", "DE"}
      [] id = "issuing_jurisdiction" -> {"CA", "NY"}
      [] OTHER -> {"true"}

Elements ==
    UNION {[elementIdentifier : {id}, elementValue : ElementValues(id), isValid : BOOLEAN]
            : id \in ElementIds}

\* The element lists of at most MaxElems elements with distinct identifiers.
ElementLists ==
    UNION {{l \in [1..n -> Elements] :
                \A j, k \in 1..n : j # k => l[j].elementIdentifier # l[k].elementIdentifier}
            : n \in 0..MaxElems}

\* The nominal element is a valid issuing_country that matches the certificate.
ElementCost(e) ==
    Differs(e.isValid, TRUE)
    + (IF e.elementIdentifier = "issuing_country" THEN Differs(e.elementValue, "US") ELSE 1)

RECURSIVE ElementListCost(_)
ElementListCost(l) ==
    IF l = <<>> THEN 0 ELSE ElementCost(Head(l)) + ElementListCost(Tail(l))

\* The element lists of cost at most k.
ElementListsWithin ==
    [k \in 0..MaxAnomalies |->
        {l : l \in {m \in ElementLists : ElementListCost(m) <= k}}]

----------------------------------------------------------------------------
\* A call of verify that is not made by getDiagnosticInformation.
NoDiagnostic == [api |-> "verify"]

\* No call is made (of a second verify, of addDocument).
NoCall == [none |-> TRUE]

\* No MDoc is built and no Date is encoded by the Verifier.
NoMDoc == [none |-> TRUE]
NoDate == [none |-> TRUE]

\* new Verifier(issuersRootCertificates): the trust anchors given to the
\* constructor.
TrustedRoots == <<"IACA root certificate">>

Init ==
    /\ pc = "idle"
    /\ opts = Unread
    /\ dr = Unread
    /\ cur = 0
    /\ docs = <<>>
    /\ log = <<>>
    /\ error = NoError
    /\ pending = {}
    /\ rejected = NoError
    /\ anomalies = 0
    /\ diag = NoDiagnostic
    /\ other = NoCall
    /\ issuersRootCertificates = TrustedRoots
    /\ mdoc = NoMDoc
    /\ addDocumentCall = NoCall
    /\ tdate = NoDate

----------------------------------------------------------------------------
\* Verifier.verify, from the call to the first await: the callback is built,
\* the bytes are parsed and the three DOCUMENT_FORMAT checks are made.

\* Format checks that accept a response without documents.
DocumentFormatDocsOptional(mode, r) ==
    Then(onCheck(mode, [Item(0, PassFail(r.version.defined), CheckVersionPresent, NoReason)
                            EXCEPT !.category = "DOCUMENT_FORMAT"]),
    Then(IF ~r.version.defined
            THEN Throw(TypeError("Invalid argument expected string"))
            ELSE onCheck(mode, [Item(0, PassFail(compareVersions(r.version) >= 1),
                                     CheckVersionSupported, NoReason)
                                    EXCEPT !.category = "DOCUMENT_FORMAT"]),
         onCheck(mode, [Item(0, "PASSED", CheckHasDocument, NoReason)
                            EXCEPT !.category = "DOCUMENT_FORMAT"])))

DocumentFormat(mode, r) ==
    Then(onCheck(mode, [Item(0, PassFail(r.version.defined), CheckVersionPresent, NoReason)
                            EXCEPT !.category = "DOCUMENT_FORMAT"]),
    Then(IF ~r.version.defined
            THEN Throw(TypeError("Invalid argument expected string"))
            ELSE onCheck(mode, [Item(0, PassFail(compareVersions(r.version) >= 1),
                                     CheckVersionSupported, NoReason)
                                    EXCEPT !.category = "DOCUMENT_FORMAT"]),
         onCheck(mode, [Item(0, PassFail(r.nDocs > 0), CheckHasDocument, NoReason)
                            EXCEPT !.category = "DOCUMENT_FORMAT"])))

\* A verify that reports the format of a response it could not parse.
verifyReportsUnparsed(o, r) ==
    IF ~r.parsed
        THEN Then(onCheck(o.mode, [Item(0, "FAILED", CheckVersionPresent, NoReason)
                                        EXCEPT !.category = "DOCUMENT_FORMAT"]),
                  Throw(MDLParseError("Unable to decode device response")))
        ELSE DocumentFormat(o.mode, r)

verify(o, r) ==
    IF ~r.parsed
        THEN Throw(MDLParseError("Unable to decode device response"))
        ELSE DocumentFormat(o.mode, r)

Verify ==
    /\ pc = "idle"
    /\ \E o \in Options, r \in {NotParsed} \cup Responses :
        /\ anomalies + OptionsCost(o) + ResponseCost(r) <= MaxAnomalies
        /\ LET res == verify(o, r) IN
            /\ opts' = o
            /\ dr' = r
            /\ anomalies' = anomalies + OptionsCost(o) + ResponseCost(r)
            /\ log' = res.out
            /\ error' = res.err
            /\ pc' = IF res.err # NoError THEN "raised"
                     ELSE IF r.nDocs = 0 THEN "returned" ELSE "issuer"
            /\ cur' = IF res.err = NoError /\ r.nDocs > 0 THEN 1 ELSE 0
    /\ UNCHANGED <<docs, pending, rejected, diag, other, issuersRootCertificates, mdoc, addDocumentCall, tdate>>

----------------------------------------------------------------------------
\* Verifier.verifyIssuerSignature

\* issuerAuth.verifyX509Chain(roots) resolves; it throws when there is no
\* leaf certificate to validate.
X509ChainValid(a) == a.certificate # NoCertificate /\ a.chainValid

\* verificationKey && await issuerAuth.verify(verificationKey)
IssuerSignatureValid(a) == a.certificate # NoCertificate /\ a.signatureValid

\* issuerAuth.countryName: the C of the leaf certificate's subject.
CountryName(a) ==
    IF a.certificate = NoCertificate THEN NoName ELSE a.certificate.countryName

CertificateChainCheck(mode, i, a) ==
    LET handler(err) ==
            onCatCheck(mode, "ISSUER_AUTH", Item(i, "FAILED", CheckCertificate, err.message))
        body ==
            Then(IF X509ChainValid(a) THEN Skip
                 ELSE Throw(LibError("No valid certificate paths found")),
                 onCatCheck(mode, "ISSUER_AUTH", Item(i, "PASSED", CheckCertificate, NoReason)))
    IN TryCatch(body, handler(body.err))

\* A signed-date check whose upper bound is exclusive.
SignedDateCheckExclusive(mode, i, a) ==
    IF a.validityInfo = NoValidityInfo \/ a.certificate = NoCertificate
        THEN Throw(TypeError("Cannot read properties of undefined"))
    ELSE onCatCheck(mode, "ISSUER_AUTH",
            Item(i,
                 IF a.validityInfo.signed < a.certificate.notBefore
                    \/ a.validityInfo.signed >= a.certificate.notAfter
                 THEN "FAILED" ELSE "PASSED",
                 CheckSignedDate,
                 "The MSO signed date (" \o ToString(a.validityInfo.signed)
                    \o ") must be within the validity period of the certificate ("
                    \o ToString(a.certificate.notBefore) \o " to "
                    \o ToString(a.certificate.notAfter) \o ")"))

\* The reason string reads validityInfo.signed and certificate.notBefore
\* whatever the status is.
SignedDateCheck(mode, i, a) ==
    IF a.validityInfo = NoValidityInfo
        THEN Throw(TypeError("Cannot read properties of undefined (reading 'signed')"))
    ELSE IF a.certificate = NoCertificate
        THEN Throw(TypeError("Cannot read properties of undefined (reading 'notBefore')"))
    ELSE onCatCheck(mode, "ISSUER_AUTH",
            Item(i,
                 IF a.validityInfo.signed < a.certificate.notBefore
                    \/ a.validityInfo.signed > a.certificate.notAfter
                 THEN "FAILED" ELSE "PASSED",
                 CheckSignedDate,
                 "The MSO signed date (" \o ToString(a.validityInfo.signed)
                    \o ") must be within the validity period of the certificate ("
                    \o ToString(a.certificate.notBefore) \o " to "
                    \o ToString(a.certificate.notAfter) \o ")"))

\* A validity check that forgets the upper bound.
MsoValidCheckNoExpiry(mode, i, a) ==
    onCatCheck(mode, "ISSUER_AUTH",
        Item(i,
             IF a.validityInfo # NoValidityInfo /\ a.now < a.validityInfo.validFrom
             THEN "FAILED" ELSE "PASSED",
             CheckMsoValid,
             "The MSO must be valid at the time of verification (" \o ToString(a.now) \o ")"))

MsoValidCheck(mode, i, a) ==
    onCatCheck(mode, "ISSUER_AUTH",
        Item(i,
             IF a.validityInfo # NoValidityInfo
                /\ (a.now < a.validityInfo.validFrom \/ a.now > a.validityInfo.validUntil)
             THEN "FAILED" ELSE "PASSED",
             CheckMsoValid,
             "The MSO must be valid at the time of verification (" \o ToString(a.now) \o ")"))

\* A verifyIssuerSignature that validates the chain whatever the option says.
verifyIssuerSignatureAlwaysChain(mode, disableCertificateChainValidation, i, a) ==
    Then(CertificateChainCheck(mode, i, a),
    Then(onCatCheck(mode, "ISSUER_AUTH",
            Item(i, PassFail(IssuerSignatureValid(a)), CheckIssuerSignature, NoReason)),
    Then(SignedDateCheck(mode, i, a),
    Then(MsoValidCheck(mode, i, a),
         onCatCheck(mode, "ISSUER_AUTH",
            Item(i, PassFail(CountryName(a) # NoName), CheckCountryName, NoReason))))))

\* A verifyIssuerSignature that stops at an invalid issuer signature.
verifyIssuerSignatureShortCircuit(mode, disableCertificateChainValidation, i, a) ==
    Then(IF ~disableCertificateChainValidation
            THEN CertificateChainCheck(mode, i, a) ELSE Skip,
    Then(onCatCheck(mode, "ISSUER_AUTH",
            Item(i, PassFail(IssuerSignatureValid(a)), CheckIssuerSignature, NoReason)),
         IF ~IssuerSignatureValid(a) THEN Skip ELSE
    Then(SignedDateCheck(mode, i, a),
    Then(MsoValidCheck(mode, i, a),
         onCatCheck(mode, "ISSUER_AUTH",
            Item(i, PassFail(CountryName(a) # NoName), CheckCountryName, NoReason))))))

verifyIssuerSignature(mode, disableCertificateChainValidation, i, a) ==
    Then(IF ~disableCertificateChainValidation
            THEN CertificateChainCheck(mode, i, a) ELSE Skip,
    Then(onCatCheck(mode, "ISSUER_AUTH",
            Item(i, PassFail(IssuerSignatureValid(a)), CheckIssuerSignature, NoReason)),
    Then(SignedDateCheck(mode, i, a),
    Then(MsoValidCheck(mode, i, a),
         onCatCheck(mode, "ISSUER_AUTH",
            Item(i, PassFail(CountryName(a) # NoName), CheckCountryName, NoReason))))))

\* for (const document of dr.documents): the loop iteration up to the end of
\* await this.verifyIssuerSignature(...)
VerifyIssuerSignature ==
    /\ pc = "issuer"
    /\ \E a \in IssuerInputsWithin[MaxAnomalies - anomalies] :
        /\ LET res == verifyIssuerSignature(opts.mode,
                        opts.disableCertificateChainValidation, cur, a) IN
            /\ docs' = Append(docs, [issuerAuth |-> a, deviceSigned |-> Unread,
                                     nameSpaces |-> Unread, elements |-> <<>>])
            /\ anomalies' = anomalies + IssuerCost(a)
            /\ log' = log \o res.out
            /\ error' = res.err
            /\ pc' = IF res.err # NoError THEN "raised" ELSE "device"
    /\ UNCHANGED <<opts, dr, cur, pending, rejected, diag, other, issuersRootCertificates, mdoc, addDocumentCall, tdate>>

----------------------------------------------------------------------------
\* Verifier.verifyDeviceSignature

\* ECDSA/EdDSA authentication.  importCOSEKey is called before the try.
DeviceSignaturePath(mode, i, d) ==
    LET handler(err) ==
            onCatCheck(mode, "DEVICE_AUTH",
                Item(i, "FAILED", CheckDeviceSignature,
                     "Unable to verify deviceAuth signature (ECDSA/EdDSA): " \o err.message))
        body ==
            IF d.signatureVerify = "throw"
                THEN Throw(LibError("Signature verification failed"))
                ELSE onCatCheck(mode, "DEVICE_AUTH",
                        Item(i, PassFail(d.signatureVerify = "true"),
                             CheckDeviceSignature, NoReason))
    IN IF d.deviceKey = "unimportable"
        THEN Throw(LibError("Unsupported key type"))
        ELSE TryCatch(body, handler(body.err))

\* MAC authentication.  calculateEphemeralMacKey is called inside the try.
DeviceMacPath(mode, ephemeralPrivateKey, i, d) ==
    LET handler(err) ==
            onCatCheck(mode, "DEVICE_AUTH",
                Item(i, "FAILED", CheckDeviceMac,
                     "Unable to verify deviceAuth MAC: " \o err.message))
        body ==
            IF d.deviceKey = "unimportable"
                THEN Throw(LibError("Unsupported key type"))
            ELSE IF d.macVerify = "throw"
                THEN Throw(LibError("MAC verification failed"))
            ELSE onCatCheck(mode, "DEVICE_AUTH",
                    Item(i, PassFail(d.macVerify = "true"), CheckDeviceMac, NoReason))
    IN Then(onCatCheck(mode, "DEVICE_AUTH",
                Item(i, PassFail(d.deviceAuth.deviceMac), CheckMacPresent, NoReason)),
       IF ~d.deviceAuth.deviceMac THEN Skip ELSE
       Then(onCatCheck(mode, "DEVICE_AUTH",
                Item(i, PassFail(d.macSupportedAlg), CheckMacAlg, NoReason)),
       IF ~d.macSupportedAlg THEN Skip ELSE
       Then(onCatCheck(mode, "DEVICE_AUTH",
                Item(i, PassFail(ephemeralPrivateKey), CheckEphemeralKey, NoReason)),
       IF ~ephemeralPrivateKey THEN Skip ELSE
       TryCatch(body, handler(body.err)))))

\* A verifyDeviceSignature that goes on after reporting a missing session
\* transcript.
verifyDeviceSignatureNoReturn(mode, sessionTranscriptBytes, ephemeralPrivateKey, i, d) ==
    IF ~d.deviceSigned
        THEN onCatCheck(mode, "DEVICE_AUTH", Item(i, "FAILED", CheckDeviceSigned, NoReason))
    ELSE IF ~d.deviceAuth.deviceMac /\ ~d.deviceAuth.deviceSignature
        THEN onCatCheck(mode, "DEVICE_AUTH", Item(i, "FAILED", CheckProofPresent, NoReason))
    ELSE Then(IF ~sessionTranscriptBytes
                THEN onCatCheck(mode, "DEVICE_AUTH",
                        Item(i, "FAILED", CheckTranscript, NoReason))
                ELSE Skip,
              IF d.deviceKey = "absent"
                THEN onCatCheck(mode, "DEVICE_AUTH",
                        Item(i, "FAILED", CheckDeviceKey,
                             "Unable to verify deviceAuth signature: missing device key in issuerAuth"))
              ELSE IF d.deviceAuth.deviceSignature
                THEN DeviceSignaturePath(mode, i, d)
              ELSE DeviceMacPath(mode, ephemeralPrivateKey, i, d))

\* A verifyDeviceSignature that looks for the device key before the session
\* transcript.
verifyDeviceSignatureKeyFirst(mode, sessionTranscriptBytes, ephemeralPrivateKey, i, d) ==
    IF ~d.deviceSigned
        THEN onCatCheck(mode, "DEVICE_AUTH", Item(i, "FAILED", CheckDeviceSigned, NoReason))
    ELSE IF ~d.deviceAuth.deviceMac /\ ~d.deviceAuth.deviceSignature
        THEN onCatCheck(mode, "DEVICE_AUTH", Item(i, "FAILED", CheckProofPresent, NoReason))
    ELSE IF d.deviceKey = "absent"
        THEN onCatCheck(mode, "DEVICE_AUTH",
                Item(i, "FAILED", CheckDeviceKey,
                     "Unable to verify deviceAuth signature: missing device key in issuerAuth"))
    ELSE IF ~sessionTranscriptBytes
        THEN onCatCheck(mode, "DEVICE_AUTH", Item(i, "FAILED", CheckTranscript, NoReason))
    ELSE IF d.deviceAuth.deviceSignature
        THEN DeviceSignaturePath(mode, i, d)
    ELSE DeviceMacPath(mode, ephemeralPrivateKey, i, d)

\* A verifyDeviceSignature without the precondition that one of
\* deviceSignature and deviceMac is present.
verifyDeviceSignatureNoProofCheck(mode, sessionTranscriptBytes, ephemeralPrivateKey, i, d) ==
    IF ~d.deviceSigned
        THEN onCatCheck(mode, "DEVICE_AUTH", Item(i, "FAILED", CheckDeviceSigned, NoReason))
    ELSE IF ~sessionTranscriptBytes
        THEN onCatCheck(mode, "DEVICE_AUTH", Item(i, "FAILED", CheckTranscript, NoReason))
    ELSE IF d.deviceKey = "absent"
        THEN onCatCheck(mode, "DEVICE_AUTH",
                Item(i, "FAILED", CheckDeviceKey,
                     "Unable to verify deviceAuth signature: missing device key in issuerAuth"))
    ELSE IF d.deviceAuth.deviceSignature
        THEN DeviceSignaturePath(mode, i, d)
    ELSE DeviceMacPath(mode, ephemeralPrivateKey, i, d)

verifyDeviceSignature(mode, sessionTranscriptBytes, ephemeralPrivateKey, i, d) ==
    IF ~d.deviceSigned
        THEN onCatCheck(mode, "DEVICE_AUTH", Item(i, "FAILED", CheckDeviceSigned, NoReason))
    ELSE IF ~d.deviceAuth.deviceMac /\ ~d.deviceAuth.deviceSignature
        THEN onCatCheck(mode, "DEVICE_AUTH", Item(i, "FAILED", CheckProofPresent, NoReason))
    ELSE IF ~sessionTranscriptBytes
        THEN onCatCheck(mode, "DEVICE_AUTH", Item(i, "FAILED", CheckTranscript, NoReason))
    ELSE IF d.deviceKey = "absent"
        THEN onCatCheck(mode, "DEVICE_AUTH",
                Item(i, "FAILED", CheckDeviceKey,
                     "Unable to verify deviceAuth signature: missing device key in issuerAuth"))
    ELSE IF d.deviceAuth.deviceSignature
        THEN DeviceSignaturePath(mode, i, d)
    ELSE DeviceMacPath(mode, ephemeralPrivateKey, i, d)

\* await this.verifyDeviceSignature(document, {...})
VerifyDeviceSignature ==
    /\ pc = "device"
    /\ \E d \in DeviceInputsWithin[MaxAnomalies - anomalies] :
        /\ LET res == verifyDeviceSignature(opts.mode, opts.encodedSessionTranscript,
                        opts.ephemeralReaderKey, cur, d) IN
            /\ docs' = [docs EXCEPT ![cur].deviceSigned = d]
            /\ anomalies' = anomalies + DeviceCost(d)
            /\ log' = log \o res.out
            /\ error' = res.err
            /\ pc' = IF res.err # NoError THEN "raised" ELSE "data"
    /\ UNCHANGED <<opts, dr, cur, pending, rejected, diag, other, issuersRootCertificates, mdoc, addDocumentCall, tdate>>

----------------------------------------------------------------------------
\* Verifier.verifyData

\* IssuerSignedItem.matchCertificate(ns, issuerAuth)
matchCertificate(e, a) ==
    CASE e.elementIdentifier = "issuing_country" ->
            e.elementValue = a.certificate.countryName
      [] e.elementIdentifier = "issuing_jurisdiction" /\ a.certificate.stateOrProvince # NoName ->
            e.elementValue = a.certificate.stateOrProvince
      [] OTHER -> FALSE

\* items.forEach((v) => onCheck(v))
RECURSIVE ForEach(_, _, _)
ForEach(mode, category, items) ==
    IF items = <<>> THEN Skip
    ELSE Then(onCatCheck(mode, category, Head(items)),
              ForEach(mode, category, Tail(items)))

ElementItems(i, ns, l, status) ==
    [k \in 1..Len(l) |->
        Item(i, status, CheckElementDigest(ns, l[k].elementIdentifier), NoReason)]

\* Cross-checks that compare the values only, whatever the digests say.
CertificateCrossChecksValueOnly(mode, i, a, l) ==
    IF a.certificate = NoCertificate
        THEN Throw(TypeError("Cannot read properties of undefined (reading 'issuerName')"))
    ELSE IF ~a.certificate.issuerName
        THEN onCatCheck(mode, "DATA_INTEGRITY",
                Item(i, "FAILED", CheckIssuingCountry,
                     "The 'issuing_country' and 'issuing_jurisdiction' cannot be verified because the DS certificate was not provided"))
    ELSE
        LET IsBadCountry(e) ==
                e.elementIdentifier = "issuing_country" /\ ~matchCertificate(e, a)
            IsBadJurisdiction(e) ==
                /\ e.elementIdentifier = "issuing_jurisdiction"
                /\ a.certificate.stateOrProvince # NoName /\ ~matchCertificate(e, a)
            badCountry == SelectSeq(l, IsBadCountry)
            badJurisdiction == SelectSeq(l, IsBadJurisdiction)
        IN Then(onCatCheck(mode, "DATA_INTEGRITY",
                    Item(i, PassFail(badCountry = <<>>), CheckIssuingCountry,
                         IF badCountry # <<>>
                            THEN "The 'issuing_country' (" \o badCountry[1].elementValue
                                 \o ") must match the 'countryName' ("
                                 \o a.certificate.countryName
                                 \o ") in the subject field within the issuer certificate"
                            ELSE NoReason)),
                onCatCheck(mode, "DATA_INTEGRITY",
                    Item(i, PassFail(badJurisdiction = <<>>), CheckIssuingJurisdiction,
                         IF badJurisdiction # <<>>
                            THEN "The 'issuing_jurisdiction' (" \o badJurisdiction[1].elementValue
                                 \o ") must match the 'stateOrProvinceName' ("
                                 \o a.certificate.stateOrProvince
                                 \o ") in the subject field within the issuer certificate"
                            ELSE NoReason)))

\* Cross-checks that compare the jurisdiction whether or not the certificate
\* has a stateOrProvinceName.
CertificateCrossChecksAlwaysCompare(mode, i, a, l) ==
    IF a.certificate = NoCertificate
        THEN Throw(TypeError("Cannot read properties of undefined (reading 'issuerName')"))
    ELSE IF ~a.certificate.issuerName
        THEN onCatCheck(mode, "DATA_INTEGRITY",
                Item(i, "FAILED", CheckIssuingCountry,
                     "The 'issuing_country' and 'issuing_jurisdiction' cannot be verified because the DS certificate was not provided"))
    ELSE
        LET IsBadCountry(e) ==
                /\ e.elementIdentifier = "issuing_country"
                /\ (~e.isValid \/ ~matchCertificate(e, a))
            IsBadJurisdiction(e) ==
                /\ e.elementIdentifier = "issuing_jurisdiction"
                /\ (~e.isValid \/ ~matchCertificate(e, a))
            badCountry == SelectSeq(l, IsBadCountry)
            badJurisdiction == SelectSeq(l, IsBadJurisdiction)
        IN Then(onCatCheck(mode, "DATA_INTEGRITY",
                    Item(i, PassFail(badCountry = <<>>), CheckIssuingCountry,
                         IF badCountry # <<>>
                            THEN "The 'issuing_country' (" \o badCountry[1].elementValue
                                 \o ") must match the 'countryName' ("
                                 \o a.certificate.countryName
                                 \o ") in the subject field within the issuer certificate"
                            ELSE NoReason)),
                onCatCheck(mode, "DATA_INTEGRITY",
                    Item(i, PassFail(badJurisdiction = <<>>), CheckIssuingJurisdiction,
                         IF badJurisdiction # <<>>
                            THEN "The 'issuing_jurisdiction' (" \o badJurisdiction[1].elementValue
                                 \o ") must match the 'stateOrProvinceName' ("
                                 \o a.certificate.stateOrProvince
                                 \o ") in the subject field within the issuer certificate"
                            ELSE NoReason)))

\* The cross-checks of the mDL namespace against the issuer certificate.
CertificateCrossChecks(mode, i, a, l) ==
    IF a.certificate = NoCertificate
        THEN Throw(TypeError("Cannot read properties of undefined (reading 'issuerName')"))
    ELSE IF ~a.certificate.issuerName
        THEN onCatCheck(mode, "DATA_INTEGRITY",
                Item(i, "FAILED", CheckIssuingCountry,
                     "The 'issuing_country' and 'issuing_jurisdiction' cannot be verified because the DS certificate was not provided"))
    ELSE
        LET IsBadCountry(e) ==
                /\ e.elementIdentifier = "issuing_country"
                /\ (~e.isValid \/ ~matchCertificate(e, a))
            IsBadJurisdiction(e) ==
                /\ e.elementIdentifier = "issuing_jurisdiction"
                /\ (~e.isValid
                    \/ (a.certificate.stateOrProvince # NoName /\ ~matchCertificate(e, a)))
            badCountry == SelectSeq(l, IsBadCountry)
            badJurisdiction == SelectSeq(l, IsBadJurisdiction)
        IN Then(onCatCheck(mode, "DATA_INTEGRITY",
                    Item(i, PassFail(badCountry = <<>>), CheckIssuingCountry,
                         IF badCountry # <<>>
                            THEN "The 'issuing_country' (" \o badCountry[1].elementValue
                                 \o ") must match the 'countryName' ("
                                 \o a.certificate.countryName
                                 \o ") in the subject field within the issuer certificate"
                            ELSE NoReason)),
                onCatCheck(mode, "DATA_INTEGRITY",
                    Item(i, PassFail(badJurisdiction = <<>>), CheckIssuingJurisdiction,
                         IF badJurisdiction # <<>>
                            THEN "The 'issuing_jurisdiction' (" \o badJurisdiction[1].elementValue
                                 \o ") must match the 'stateOrProvinceName' ("
                                 \o a.certificate.stateOrProvince
                                 \o ") in the subject field within the issuer certificate"
                            ELSE NoReason)))

\* IssuerSignedItem.isValid(ns, issuerAuth): an item is valid only against a
\* digest that the MSO holds for its namespace.
ItemsWellFormed(n, ns, l) ==
    \A k \in 1..Len(l) : l[k].isValid => ns \in n.valueDigests

\* A namespace callback that reports the valid elements only.
NamespaceChecksValidOnly(mode, i, a, ns, l) ==
    LET IsValid(e) == e.isValid
    IN Then(ForEach(mode, "DATA_INTEGRITY", ElementItems(i, ns, SelectSeq(l, IsValid), "PASSED")),
            IF ns = MDL_NAMESPACE THEN CertificateCrossChecks(mode, i, a, l) ELSE Skip)

\* A namespace callback that reports the invalid elements first.
NamespaceChecksFailedFirst(mode, i, a, ns, l) ==
    LET IsValid(e) == e.isValid
        IsInvalid(e) == ~e.isValid
    IN Then(ForEach(mode, "DATA_INTEGRITY", ElementItems(i, ns, SelectSeq(l, IsInvalid), "FAILED")),
       Then(ForEach(mode, "DATA_INTEGRITY", ElementItems(i, ns, SelectSeq(l, IsValid), "PASSED")),
            IF ns = MDL_NAMESPACE THEN CertificateCrossChecks(mode, i, a, l) ELSE Skip))

\* The callback of one namespace after its elements have been verified.
NamespaceChecks(mode, i, a, ns, l) ==
    LET IsValid(e) == e.isValid
        IsInvalid(e) == ~e.isValid
    IN Then(ForEach(mode, "DATA_INTEGRITY", ElementItems(i, ns, SelectSeq(l, IsValid), "PASSED")),
       Then(ForEach(mode, "DATA_INTEGRITY", ElementItems(i, ns, SelectSeq(l, IsInvalid), "FAILED")),
            IF ns = MDL_NAMESPACE THEN CertificateCrossChecks(mode, i, a, l) ELSE Skip))

\* The callback of one namespace up to its first await.
NamespaceStart(mode, i, n, ns) ==
    onCatCheck(mode, "DATA_INTEGRITY",
        Item(i, PassFail(ns \in n.valueDigests), CheckNamespaceDigests(ns), NoReason))

\* A loop over the namespaces that stops at the first callback that throws.
RECURSIVE MapNamespacesUntilThrow(_, _, _, _)
MapNamespacesUntilThrow(mode, i, n, names) ==
    IF names = <<>> THEN [out |-> <<>>, waiting |-> {}, err |-> NoError]
    ELSE LET first == NamespaceStart(mode, i, n, Head(names))
             rest == MapNamespacesUntilThrow(mode, i, n, Tail(names))
         IN IF first.err # NoError
                THEN [out |-> first.out, waiting |-> {}, err |-> first.err]
                ELSE [out |-> first.out \o rest.out,
                      waiting |-> {[doc |-> i, ns |-> Head(names)]} \cup rest.waiting,
                      err |-> rest.err]

\* nameSpaces.map(async (ns) => ...): every callback runs to its first await,
\* whether or not an earlier one threw.  Yields what was delivered, the
\* namespaces left waiting and the first rejection.
RECURSIVE MapNamespaces(_, _, _, _)
MapNamespaces(mode, i, n, names) ==
    IF names = <<>> THEN [out |-> <<>>, waiting |-> {}, err |-> NoError]
    ELSE LET first == NamespaceStart(mode, i, n, Head(names))
             rest == MapNamespaces(mode, i, n, Tail(names))
         IN [out |-> first.out \o rest.out,
             waiting |-> (IF first.err = NoError THEN {[doc |-> i, ns |-> Head(names)]} ELSE {})
                            \cup rest.waiting,
             err |-> IF first.err # NoError THEN first.err ELSE rest.err]

\* A digest algorithm check that ends verifyData on an unsupported algorithm.
DigestAlgorithmCheckStrict(mode, i, n) ==
    Then(onCatCheck(mode, "DATA_INTEGRITY",
            Item(i, PassFail(n.digestAlgorithm \in DIGEST_ALGS), CheckDigestAlgorithm, NoReason)),
         IF n.digestAlgorithm \in DIGEST_ALGS THEN Skip
         ELSE Throw(MDLError(CheckDigestAlgorithm)))

DigestAlgorithmCheck(mode, i, n) ==
    onCatCheck(mode, "DATA_INTEGRITY",
        Item(i, PassFail(n.digestAlgorithm \in DIGEST_ALGS), CheckDigestAlgorithm, NoReason))

\* await this.verifyData(document, onCheck), up to the await of Promise.all
VerifyData ==
    /\ pc = "data"
    /\ \E n \in DataInputsWithin[MaxAnomalies - anomalies] :
        /\ LET first == DigestAlgorithmCheck(opts.mode, cur, n)
               map == MapNamespaces(opts.mode, cur, n, n.nameSpaces) IN
            /\ docs' = [docs EXCEPT ![cur].nameSpaces = n]
            /\ anomalies' = anomalies + DataCost(n)
            /\ IF first.err # NoError
                THEN /\ log' = log \o first.out
                     /\ error' = first.err
                     /\ pc' = "raised"
                     /\ UNCHANGED <<pending, rejected>>
                ELSE /\ log' = log \o first.out \o map.out
                     /\ pending' = map.waiting
                     /\ rejected' = map.err
                     /\ pc' = "join"
                     /\ UNCHANGED error
    /\ UNCHANGED <<opts, dr, cur, diag, other, issuersRootCertificates, mdoc, addDocumentCall, tdate>>

\* The callback of namespace ns resumes once its elements are verified.  It
\* does so too after the Promise.all was rejected by another namespace.
NamespaceFinish ==
    /\ \E p \in pending, l \in ElementListsWithin[MaxAnomalies - anomalies] :
        /\ ItemsWellFormed(docs[p.doc].nameSpaces, p.ns, l)
        /\ LET res == NamespaceChecks(opts.mode, p.doc, docs[p.doc].issuerAuth, p.ns, l) IN
            /\ docs' = [docs EXCEPT ![p.doc].elements =
                            Append(@, [ns |-> p.ns, items |-> l])]
            /\ anomalies' = anomalies + ElementListCost(l)
            /\ log' = log \o res.out
            /\ pending' = pending \ {p}
            /\ rejected' = IF rejected = NoError THEN res.err ELSE rejected
    /\ UNCHANGED <<pc, opts, dr, cur, error, diag, other, issuersRootCertificates, mdoc, addDocumentCall, tdate>>

\* A verifyData that does not await the namespace callbacks.
PromiseAllSettleNoAwait ==
    /\ pc = "join"
    /\ pc' = IF cur < dr.nDocs THEN "issuer" ELSE "returned"
    /\ cur' = IF cur < dr.nDocs THEN cur + 1 ELSE cur
    /\ UNCHANGED <<opts, dr, docs, log, pending, anomalies, error, rejected, diag, other, issuersRootCertificates, mdoc, addDocumentCall, tdate>>

\* await Promise.all(...) settles: rejected with the first rejection, or
\* fulfilled when every namespace is done; then the loop of verify goes on.
PromiseAllSettle ==
    /\ pc = "join"
    /\ \/ /\ rejected # NoError
          /\ pc' = "raised"
          /\ error' = rejected
          /\ UNCHANGED <<cur, rejected>>
       \/ /\ rejected = NoError
          /\ pending = {}
          /\ pc' = IF cur < dr.nDocs THEN "issuer" ELSE "returned"
          /\ cur' = IF cur < dr.nDocs THEN cur + 1 ELSE cur
          /\ UNCHANGED <<error, rejected>>
    /\ UNCHANGED <<opts, dr, docs, log, pending, anomalies, diag, other, issuersRootCertificates, mdoc, addDocumentCall, tdate>>

Next ==
    \/ Verify
    \/ VerifyIssuerSignature
    \/ VerifyDeviceSignature
    \/ VerifyData
    \/ NamespaceFinish
    \/ PromiseAllSettle

Spec == Init /\ [][Next]_vars

----------------------------------------------------------------------------
\* Verifier.getDiagnosticInformation

\* An absent (undefined) part of the report.
Undefined == [undefined |-> TRUE]

\* { ...options, onCheck: (check) => dr.push(check) }: the collector comes
\* last in the literal, so it replaces the onCheck of the caller.
DiagnosticOptions(o) == [o EXCEPT !.mode = "collect"]

\* dr.filter(category && status === 'FAILED').map(reason ?? check)
RECURSIVE Reasons(_, _)
Reasons(collected, category) ==
    IF collected = <<>> THEN <<>>
    ELSE LET c == Head(collected)
             rest == Reasons(Tail(collected), category) IN
         IF c.category = category /\ c.status = "FAILED"
            THEN <<ReasonOrCheck(c)>> \o rest
            ELSE rest

\* A verdict that is valid as soon as one assessment of the category PASSED.
CategoryVerdictSomePassed(collected, category) ==
    [isValid |-> \E k \in 1..Len(collected) :
                    collected[k].category = category /\ collected[k].status = "PASSED",
     reasons |-> Reasons(collected, category)]

\* isValid: dr.filter(category).every(status === 'PASSED'), and the reasons.
CategoryVerdict(collected, category) ==
    [isValid |-> \A k \in 1..Len(collected) :
                    collected[k].category = category => collected[k].status = "PASSED",
     reasons |-> Reasons(collected, category)]

\* deviceSignature?.algName ?? deviceMac?.algName
AlgName(d) ==
    IF d.deviceAuth.deviceSignature THEN "ES256"
    ELSE IF d.deviceAuth.deviceMac
        THEN (IF d.macSupportedAlg THEN "HS256" ELSE "HS512")
    ELSE NoName

\* A deviceSignature part reported for every document.
DeviceSignatureReportAlways(d, collected) ==
    [alg |-> AlgName(d)] @@ CategoryVerdict(collected, "DEVICE_AUTH")

\* document instanceof DeviceSignedDocument ? {alg, isValid, reasons} : undefined
DeviceSignatureReport(d, collected) ==
    IF d.deviceSigned
        THEN [alg |-> AlgName(d)] @@ CategoryVerdict(collected, "DEVICE_AUTH")
        ELSE Undefined

\* document instanceof DeviceSignedDocument ? <its device namespaces> : undefined
\* (the device-signed elements themselves are not modelled)
DeviceAttributes(d) == IF d.deviceSigned THEN [undefined |-> FALSE] ELSE Undefined

\* The IssuerSignedItems of namespace ns of the document.
ItemsOf(document, ns) ==
    (CHOOSE e \in Range(document.elements) : e.ns = ns).items

\* items.map(async (item) => ({ ns, id, value, isValid, matchCertificate }))
AttributesOfNamespace(ns, l, a) ==
    [k \in 1..Len(l) |->
        [ns |-> ns, id |-> l[k].elementIdentifier, value |-> l[k].elementValue,
         isValid |-> l[k].isValid, matchCertificate |-> matchCertificate(l[k], a)]]

\* attributes: the items of every namespace, in the order of
\* Object.keys(nameSpaces), flattened.
RECURSIVE Attributes(_, _)
Attributes(document, names) ==
    IF names = <<>> THEN <<>>
    ELSE AttributesOfNamespace(Head(names), ItemsOf(document, Head(names)), document.issuerAuth)
            \o Attributes(document, Tail(names))

\* The numbers of digests the MSO may hold per namespace of valueDigests:
\* every valid item has its own digest.
DigestSizes(document) ==
    {sizes \in [document.nameSpaces.valueDigests -> 0..MaxDigests] :
        \A e \in Range(document.elements) :
            LET IsValid(x) == x.isValid IN
            e.ns \in DOMAIN sizes => Len(SelectSeq(e.items, IsValid)) <= sizes[e.ns]}

\* The nominal MSO holds the digests of the valid disclosed items and no
\* others.
DigestSizesCost(document, sizes) ==
    Cardinality({e \in Range(document.elements) :
        LET IsValid(x) == x.isValid IN
        e.ns \in DOMAIN sizes /\ sizes[e.ns] # Len(SelectSeq(e.items, IsValid))})

\* Array.from(valueDigests.entries()).reduce((prev, [, digests]) => prev + digests.size, 0)
RECURSIVE totalAttributes(_)
totalAttributes(digests) ==
    IF DOMAIN digests = {} THEN 0
    ELSE LET ns == CHOOSE x \in DOMAIN digests : TRUE IN
         digests[ns] + totalAttributes([x \in DOMAIN digests \ {ns} |-> digests[x]])

\* A count of the disclosed attributes that takes them all.
disclosedAttributesAll(attributes, digests) ==
    ToString(Len(attributes)) \o " of " \o ToString(totalAttributes(digests))

\* `${attributes.filter((attr) => attr.isValid).length} of ${totalAttributes}`
disclosedAttributes(attributes, digests) ==
    LET IsValid(attr) == attr.isValid IN
    ToString(Len(SelectSeq(attributes, IsValid))) \o " of " \o ToString(totalAttributes(digests))

\* The returned object, as far as it is built from the collected assessments,
\* the kind of documents[0], its disclosed items and the sizes of the digest
\* maps of its MSO.
Report(decoded, document, collected, digests) ==
    LET attributes == Attributes(document, document.nameSpaces.nameSpaces) IN
    [general |-> [version |-> decoded.version, documents |-> decoded.nDocs],
     issuerSignature |-> CategoryVerdict(collected, "ISSUER_AUTH") @@ [digests |-> digests],
     deviceSignature |-> DeviceSignatureReport(document.deviceSigned, collected),
     dataIntegrity |-> CategoryVerdict(collected, "DATA_INTEGRITY")
                        @@ [disclosedAttributes |-> disclosedAttributes(attributes, digests)],
     attributes |-> attributes,
     deviceAttributes |-> DeviceAttributes(document.deviceSigned)]

\* The call, up to the first await of the verify it makes.
GetDiagnosticInformation ==
    /\ pc = "idle"
    /\ \E o \in Options, r \in {NotParsed} \cup Responses :
        /\ anomalies + OptionsCost(o) + ResponseCost(r) <= MaxAnomalies
        /\ LET res == verify(DiagnosticOptions(o), r) IN
            /\ opts' = DiagnosticOptions(o)
            /\ diag' = [api |-> "getDiagnosticInformation", report |-> Unread]
            /\ dr' = r
            /\ anomalies' = anomalies + OptionsCost(o) + ResponseCost(r)
            /\ log' = res.out
            /\ error' = res.err
            /\ pc' = IF res.err # NoError THEN "raised"
                     ELSE IF r.nDocs = 0 THEN "returned" ELSE "issuer"
            /\ cur' = IF res.err = NoError /\ r.nDocs > 0 THEN 1 ELSE 0
    /\ UNCHANGED <<docs, pending, rejected, other, issuersRootCertificates, mdoc, addDocumentCall, tdate>>

\* After the await of verify: documents[0] is read and the report is built.
\* Reading issuerSigned of an undefined document throws a TypeError.
DiagnosticReport ==
    /\ pc = "returned"
    /\ diag.api = "getDiagnosticInformation"
    /\ IF dr.nDocs = 0
        THEN /\ pc' = "raised"
             /\ error' = TypeError("Cannot read properties of undefined (reading 'issuerSigned')")
             /\ UNCHANGED <<diag, anomalies>>
        ELSE /\ pc' = "reported"
             /\ \E digests \in DigestSizes(docs[1]) :
                    /\ anomalies + DigestSizesCost(docs[1], digests) <= MaxAnomalies
                    /\ anomalies' = anomalies + DigestSizesCost(docs[1], digests)
                    /\ diag' = [diag EXCEPT !.report = Report(dr, docs[1], log, digests)]
             /\ UNCHANGED error
    /\ UNCHANGED <<opts, dr, cur, docs, log, pending, rejected, other,
                   issuersRootCertificates, mdoc, addDocumentCall, tdate>>

NextDiag ==
    \/ GetDiagnosticInformation
    \/ VerifyIssuerSignature
    \/ VerifyDeviceSignature
    \/ VerifyData
    \/ NamespaceFinish
    \/ PromiseAllSettle
    \/ DiagnosticReport

SpecDiag == Init /\ [][NextDiag]_vars

----------------------------------------------------------------------------
\* Two calls on one Verifier.  What a call works with are the parameters and
\* the local constants of verify and getDiagnosticInformation (options,
\* onCheck, dr, document, the collector): each call has its own.  The
\* Verifier itself holds issuersRootCertificates only.

\* The locals of the running call.
Locals ==
    [pc |-> pc, opts |-> opts, dr |-> dr, cur |-> cur, docs |-> docs, log |-> log,
     error |-> error, pending |-> pending, rejected |-> rejected, diag |-> diag]

\* A call that was not made yet.
IdleCall ==
    [pc |-> "idle", opts |-> Unread, dr |-> Unread, cur |-> 0, docs |-> <<>>,
     log |-> <<>>, error |-> NoError, pending |-> {}, rejected |-> NoError,
     diag |-> NoDiagnostic]

InitTwo ==
    /\ pc = "idle"
    /\ opts = Unread
    /\ dr = Unread
    /\ cur = 0
    /\ docs = <<>>
    /\ log = <<>>
    /\ error = NoError
    /\ pending = {}
    /\ rejected = NoError
    /\ anomalies = MaxAnomalies - 1     \* the two calls together read one anomaly at most
    /\ diag = NoDiagnostic
    /\ other = IdleCall
    /\ issuersRootCertificates = TrustedRoots
    /\ mdoc = NoMDoc
    /\ addDocumentCall = NoCall
    /\ tdate = NoDate

\* The event loop has something to run for call c: the call is not settled,
\* or namespace callbacks of its verifyData are still waiting.
Runnable(c) ==
    \/ c.pc \in {"idle", "issuer", "device", "data", "join"}
    \/ c.pc = "returned" /\ c.diag # NoDiagnostic
    \/ c.pending # {}

\* A switch in which the collector of the suspended call is the instance's:
\* the resumed call goes on delivering to the callback of the other call.
AwaitSharedCallback ==
    /\ other # NoCall
    /\ pc # "idle"
    /\ Runnable(other)
    /\ other' = [Locals EXCEPT !.log = other.log]
    /\ pc' = other.pc
    /\ opts' = other.opts
    /\ dr' = other.dr
    /\ cur' = other.cur
    /\ docs' = other.docs
    /\ error' = other.error
    /\ pending' = other.pending
    /\ rejected' = other.rejected
    /\ diag' = other.diag
    /\ UNCHANGED <<log, anomalies, issuersRootCertificates, mdoc, addDocumentCall, tdate>>

\* The running call is suspended at an await (or has settled) and the event
\* loop runs the other call, which finds its locals as it left them.
Await ==
    /\ other # NoCall
    /\ pc # "idle"
    /\ Runnable(other)
    /\ other' = Locals
    /\ pc' = other.pc
    /\ opts' = other.opts
    /\ dr' = other.dr
    /\ cur' = other.cur
    /\ docs' = other.docs
    /\ log' = other.log
    /\ error' = other.error
    /\ pending' = other.pending
    /\ rejected' = other.rejected
    /\ diag' = other.diag
    /\ UNCHANGED <<anomalies, issuersRootCertificates, mdoc, addDocumentCall, tdate>>

NextTwo ==
    \/ Verify
    \/ GetDiagnosticInformation
    \/ VerifyIssuerSignature
    \/ VerifyDeviceSignature
    \/ VerifyData
    \/ NamespaceFinish
    \/ PromiseAllSettle
    \/ DiagnosticReport
    \/ Await

SpecTwo == InitTwo /\ [][NextTwo]_vars

----------------------------------------------------------------------------
\* MDoc.ts

\* The variables of the Verifier model, which an MDoc does not touch.
verifierVars ==
    <<pc, opts, dr, cur, docs, log, error, pending, rejected, anomalies, diag, other,
      issuersRootCertificates>>

\* enum MDocStatus
MDocStatus == {0, 10, 11, 12}

\* A document handed to addDocument: issuerSigned is defined or is not.
Documents == [docType : DocTypes, issuerSigned : BOOLEAN]

\* new MDoc(documents, version, status) with issuer-signed documents.
MDocs ==
    [documents : {<<>>} \cup {<<d>> : d \in {x \in Documents : x.issuerSigned}},
     version : {"1.0", "1.1"},
     status : MDocStatus]

\* An addDocument that pushes whatever it is given.
addDocumentUnchecked(m, document) ==
    [mdoc |-> [m EXCEPT !.documents = Append(@, document)], error |-> NoError]

\* addDocument(document): the MDoc after the call and the error thrown.
addDocument(m, document) ==
    IF ~document.issuerSigned
        THEN [mdoc |-> m, error |-> LibError("Cannot add an unsigned document")]
        ELSE [mdoc |-> [m EXCEPT !.documents = Append(@, document)], error |-> NoError]

InitMDoc ==
    /\ pc = "idle"
    /\ opts = Unread
    /\ dr = Unread
    /\ cur = 0
    /\ docs = <<>>
    /\ log = <<>>
    /\ error = NoError
    /\ pending = {}
    /\ rejected = NoError
    /\ anomalies = 0
    /\ diag = NoDiagnostic
    /\ other = NoCall
    /\ issuersRootCertificates = TrustedRoots
    /\ mdoc \in MDocs
    /\ addDocumentCall = NoCall
    /\ tdate = NoDate

AddDocument ==
    /\ Len(mdoc.documents) < MaxAdded
    /\ \E document \in Documents :
        LET res == addDocument(mdoc, document) IN
        /\ mdoc' = res.mdoc
        /\ addDocumentCall' = [document |-> document, error |-> res.error]
    /\ UNCHANGED <<verifierVars, tdate>>

NextMDoc == AddDocument

SpecMDoc == InitMDoc /\ [][NextMDoc]_vars

(***************************************************************************)
(* cbor/index.js: the tag-0 (tdate) extension.  A Date holds a time value  *)
(* in milliseconds since the epoch, kept here as whole seconds (floor) and *)
(* the milliseconds within the second, or no time value (Invalid Date).    *)
(* A text is the sequence of the fields and separators of the string.      *)
(***************************************************************************)

\* new Date(NaN)
InvalidDate == [valid |-> FALSE, sec |-> 0, ms |-> 0]

\* A Date with time value sec * 1000 + ms.
DateOf(sec, ms) == [valid |-> TRUE, sec |-> sec, ms |-> ms]

\* Whole seconds at which the calendar fields carry: the epoch (a new year),
\* 1969-01-01, both ends of 2000-02-29, and 2024-03-01.
Anchors == {0, 0 - 31536000, 951782400, 951868800, 1709251200}

\* The Dates handed to the encoder.
DatesWithin ==
    {InvalidDate} \cup
    {DateOf(a + s, ms) : a \in Anchors, s \in (0 - MaxSecs)..MaxSecs, ms \in {0, 1, 500, 999}}

\* A field of w digits and a separator of a date-time string.
Num(n, w) == [kind |-> "digits", n |-> n, w |-> w, s |-> ""]
Sep(s) == [kind |-> "separator", n |-> 0, w |-> 0, s |-> s]

\* Year, month and day of a day number counted from 1970-01-01 (ECMAScript
\* YearFromTime, MonthFromTime, DateFromTime of the proleptic Gregorian calendar).
CivilFromDays(days) ==
    LET z == days + 719468
        era == z \div 146097
        doe == z - era * 146097
        yoe == (doe - (doe \div 1460) + (doe \div 36524) - (doe \div 146096)) \div 365
        doy == doe - (365 * yoe + (yoe \div 4) - (yoe \div 100))
        mp == (5 * doy + 2) \div 153
        m == IF mp < 10 THEN mp + 3 ELSE mp - 9
    IN  [year |-> yoe + era * 400 + (IF m <= 2 THEN 1 ELSE 0),
         month |-> m,
         day |-> doy - ((153 * mp + 2) \div 5) + 1]

\* The day number of a year, month and day (ECMAScript MakeDay).
DaysFromCivil(year, month, day) ==
    LET y == year - (IF month <= 2 THEN 1 ELSE 0)
        era == y \div 400
        yoe == y - era * 400
        doy == ((153 * (IF month > 2 THEN month - 3 ELSE month + 9) + 2) \div 5) + day - 1
        doe == yoe * 365 + (yoe \div 4) - (yoe \div 100) + doy
    IN  era * 146097 + doe - 719468

DaysInMonth(year, month) ==
    DaysFromCivil(IF month = 12 THEN year + 1 ELSE year, IF month = 12 THEN 1 ELSE month + 1, 1)
        - DaysFromCivil(year, month, 1)

\* date.toISOString(): YYYY-MM-DDTHH:mm:ss.sssZ; a RangeError without a time value.
toISOString(date) ==
    IF ~date.valid
        THEN [text |-> <<>>, error |-> [name |-> "RangeError", message |-> "Invalid time value"]]
        ELSE LET c == CivilFromDays(date.sec \div 86400)
                 t == date.sec % 86400
             IN  [text |-> <<Num(c.year, 4), Sep("-"), Num(c.month, 2), Sep("-"), Num(c.day, 2),
                             Sep("T"), Num(t \div 3600, 2), Sep(":"), Num((t % 3600) \div 60, 2),
                             Sep(":"), Num(t % 60, 2), Sep("."), Num(date.ms, 3), Sep("Z")>>,
                  error |-> NoError]

\* text.split(separator)[0]: what precedes the first separator, or all of it.
RECURSIVE SplitFirst(_, _)
SplitFirst(text, separator) ==
    IF text = <<>> \/ Head(text) = Sep(separator)
        THEN <<>>
        ELSE <<Head(text)>> \o SplitFirst(Tail(text), separator)

\* The shape YYYY-MM-DDTHH:mm:ss of the first eleven fields of a text.
IsDateTime(text) ==
    /\ Len(text) >= 11
    /\ \A k \in {1, 3, 5, 7, 9, 11} : text[k].kind = "digits"
    /\ text[1].w = 4
    /\ \A k \in {3, 5, 7, 9, 11} : text[k].w = 2
    /\ <<text[2], text[4], text[6], text[8], text[10]>>
           = <<Sep("-"), Sep("-"), Sep("T"), Sep(":"), Sep(":")>>
    /\ text[3].n \in 1..12
    /\ text[5].n \in 1..DaysInMonth(text[1].n, text[3].n)
    /\ text[7].n \in 0..23
    /\ text[9].n \in 0..59
    /\ text[11].n \in 0..59

\* new Date(text): the date-time string format with or without the fraction,
\* in UTC; Invalid Date for any other text.
DateParse(text) ==
    LET sec == DaysFromCivil(text[1].n, text[3].n, text[5].n) * 86400
                   + text[7].n * 3600 + text[9].n * 60 + text[11].n
    IN  IF IsDateTime(text) /\ Len(text) = 12 /\ text[12] = Sep("Z")
            THEN DateOf(sec, 0)
        ELSE IF /\ IsDateTime(text) /\ Len(text) = 14
                /\ text[12] = Sep(".") /\ text[13].kind = "digits" /\ text[13].w = 3
                /\ text[14] = Sep("Z")
            THEN DateOf(sec, text[13].n)
        ELSE InvalidDate

\* An encoder that writes the whole ISO string.
encodeWithFraction(date) == toISOString(date)

\* encode: (date, encode) => encode(`${date.toISOString().split('.')[0]}Z`)
encode(date) ==
    LET iso == toISOString(date) IN
    IF iso.error # NoError
        THEN iso
        ELSE [text |-> SplitFirst(iso.text, ".") \o <<Sep("Z")>>, error |-> NoError]

\* decode: (isoStringDateTime) => new Date(isoStringDateTime)
decode(isoStringDateTime) == DateParse(isoStringDateTime)

\* A Date about to be encoded; nothing of the Verifier or of an MDoc is in use.
InitCbor ==
    /\ pc = "idle"
    /\ opts = Unread
    /\ dr = Unread
    /\ cur = 0
    /\ docs = <<>>
    /\ log = <<>>
    /\ error = NoError
    /\ pending = {}
    /\ rejected = NoError
    /\ anomalies = 0
    /\ diag = NoDiagnostic
    /\ other = NoCall
    /\ issuersRootCertificates = TrustedRoots
    /\ mdoc = NoMDoc
    /\ addDocumentCall = NoCall
    /\ \E date \in DatesWithin :
        tdate = [at |-> "date", original |-> date, date |-> date, texts |-> <<>>, error |-> NoError]

\* cborEncode of the Date at hand.
Encode ==
    /\ tdate.at = "date"
    /\ Len(tdate.texts) <= MaxRoundTrips
    /\ LET res == encode(tdate.date) IN
        IF res.error # NoError
            THEN tdate' = [tdate EXCEPT !.at = "raised", !.error = res.error]
            ELSE tdate' = [tdate EXCEPT !.at = "text", !.texts = Append(@, res.text)]
    /\ UNCHANGED <<verifierVars, mdoc, addDocumentCall>>

\* cborDecode of the text last written.
Decode ==
    /\ tdate.at = "text"
    /\ Len(tdate.texts) <= MaxRoundTrips
    /\ tdate' = [tdate EXCEPT !.at = "date", !.date = decode(tdate.texts[Len(tdate.texts)])]
    /\ UNCHANGED <<verifierVars, mdoc, addDocumentCall>>

NextCbor == Encode \/ Decode

SpecCbor == InitCbor /\ [][NextCbor]_vars

----------------------------------------------------------------------------
\* Properties.

Positions == 1..Len(log)
Failed(k) == log[k].status = "FAILED"
AnyFailed == \E k \in Positions : Failed(k)
Called == opts # Unread
Parsed == dr # Unread /\ dr.parsed

\* The first FAILED assessment delivered.
FirstFailed == log[CHOOSE k \in Positions : Failed(k) /\ \A j \in 1..(k - 1) : ~Failed(j)]

\* The verify call can no longer return: its promise is rejected, or the
\* Promise.all it awaits has a rejected member.
Raising == pc = "raised" \/ (pc = "join" /\ rejected # NoError)

\* C1: with the default onCheck, verify returns only if no check was FAILED;
\* as soon as a FAILED assessment has been delivered the call is raising and
\* never returns.
C1_DefaultRaisesOnFailed ==
    (Called /\ opts.mode = "default") =>
        /\ AnyFailed => Raising
        /\ pc = "returned" => ~AnyFailed

\* C1 witness: the default callback raised on a FAILED check of the second
\* document, after the first document passed every check.
C1_Witness ==
    /\ Called /\ opts.mode = "default"
    /\ pc = "raised"
    /\ \E k \in Positions : Failed(k) /\ log[k].doc = 2

\* The device-authentication phase of document i has run to its end.
DevicePhaseDone(i) ==
    /\ i \in 1..Len(docs)
    /\ docs[i].deviceSigned # Unread
    /\ ~(pc = "raised" /\ cur = i /\ docs[i].nameSpaces = Unread)

FailedIn(i, category) ==
    \E k \in Positions : Failed(k) /\ log[k].doc = i /\ log[k].category = category

\* C2: a document that passes device authentication (no FAILED DEVICE_AUTH
\* assessment) carries exactly one of deviceSignature and deviceMac.
C2_SingleProof ==
    \A i \in 1..Len(docs) :
        (DevicePhaseDone(i) /\ ~FailedIn(i, "DEVICE_AUTH")) =>
            (docs[i].deviceSigned.deviceAuth.deviceSignature
                # docs[i].deviceSigned.deviceAuth.deviceMac)

\* C3: when verify returns and no assessment is FAILED, the docType of every
\* document equals the docType of its MSO.
C3_DocTypeMatchesMso ==
    (pc = "returned" /\ ~AnyFailed) =>
        \A i \in 1..Len(docs) : docs[i].issuerAuth.docType = docs[i].issuerAuth.msoDocType

\* C4: no check (document, category, check text) is delivered to onCheck
\* twice, whatever the callback.
C4_NoDuplicateDelivery ==
    \A j, k \in Positions :
        (j # k) => ~(/\ log[j].doc = log[k].doc
                     /\ log[j].category = log[k].category
                     /\ log[j].check = log[k].check)

\* The place of a category in the order of the phases.
Rank(category) ==
    CASE category = "DOCUMENT_FORMAT" -> 0
      [] category = "ISSUER_AUTH" -> 1
      [] category = "DEVICE_AUTH" -> 2
      [] category = "DATA_INTEGRITY" -> 3

\* C5: assessments are delivered in category-grouped order: the
\* DOCUMENT_FORMAT ones first (three of them before any other), then document
\* by document, and per document ISSUER_AUTH before DEVICE_AUTH before
\* DATA_INTEGRITY.
C5_CategoryGroupedOrder ==
    /\ \A k \in Positions \ {1} :
            \/ log[k - 1].doc < log[k].doc
            \/ (log[k - 1].doc = log[k].doc
                    /\ Rank(log[k - 1].category) <= Rank(log[k].category))
    /\ \A k \in Positions :
        /\ (log[k].category = "DOCUMENT_FORMAT") = (log[k].doc = 0)
        /\ (log[k].category # "DOCUMENT_FORMAT") =>
                /\ k > 3
                /\ \A j \in 1..3 : log[j].category = "DOCUMENT_FORMAT"
        /\ (log[k].category = "DOCUMENT_FORMAT") => k <= 3

\* C5 witness: two documents went through all three phases.
C5_Witness ==
    /\ pc = "returned"
    /\ \A i \in {1, 2}, c \in {"ISSUER_AUTH", "DEVICE_AUTH", "DATA_INTEGRITY"} :
        \E k \in Positions : log[k].doc = i /\ log[k].category = c

\* C6: with the default onCheck, the error verify raises after a FAILED check
\* is the MDLError whose message is reason ?? check of the first FAILED
\* assessment.
C6_ErrorIsFirstFailed ==
    (Called /\ opts.mode = "default" /\ pc = "raised" /\ AnyFailed) =>
        error = MDLError(ReasonOrCheck(FirstFailed))

\* Every namespace of document i has delivered its element assessments.
DataPhaseDone(i) ==
    /\ docs[i].nameSpaces # Unread
    /\ \A ns \in Range(docs[i].nameSpaces.nameSpaces) :
        \E e \in Range(docs[i].elements) : e.ns = ns

\* C7: with an onCheck that never raises, verification is never stopped, and
\* when verify returns all three phases have run for every document.
C7_CollectRunsEverything ==
    (Called /\ opts.mode = "collect" /\ Parsed) =>
        /\ pc # "raised"
        /\ pc = "returned" =>
            /\ Len(docs) = dr.nDocs
            /\ \A i \in 1..Len(docs) :
                docs[i].deviceSigned # Unread /\ DataPhaseDone(i)

\* C8: once the bytes are parsed, verify raises nothing but an MDLError, and
\* nothing at all when onCheck never raises.
C8_OnlyMDLError ==
    (Parsed /\ pc = "raised") =>
        (error.name = "MDLError" /\ opts.mode # "collect")

\* C9: a document without leaf certificate gets a FAILED 'Issuer certificate
\* must be valid' assessment, with or without chain validation.
C9_MissingCertificateReported ==
    \A i \in 1..Len(docs) :
        docs[i].issuerAuth.certificate = NoCertificate =>
            \E k \in Positions :
                /\ log[k].doc = i
                /\ log[k].category = "ISSUER_AUTH"
                /\ log[k].check = CheckCertificate
                /\ Failed(k)

\* C10: when the bytes cannot be parsed, verify is rejected and onCheck has
\* not been called.
C10_NoCheckBeforeParse ==
    (dr # Unread /\ ~dr.parsed) =>
        (log = <<>> /\ pc = "raised" /\ error.name = "MDLParseError")

\* C10 witness: a call with bytes that are no DeviceResponse.
C10_Witness == dr # Unread /\ ~dr.parsed /\ pc = "raised"

\* The positions of the assessments of one check of document i.
PositionsOf(i, category, check) ==
    {k \in Positions : log[k].doc = i /\ log[k].category = category /\ log[k].check = check}

\* C11: disableCertificateChainValidation removes the chain check and nothing
\* else.  When it is set, no 'Issuer certificate must be valid' assessment is
\* delivered and 'Issuer signature must be valid' is still delivered, with
\* the status of the signature.  When it is not set, exactly one 'Issuer
\* certificate must be valid' assessment is delivered, PASSED if the chain
\* validates and FAILED with the validation error as reason otherwise, and it
\* comes before the signature assessment.
C11_ChainCheckOnlyRemoved ==
    \A i \in 1..Len(docs) :
        LET a == docs[i].issuerAuth
            cert == PositionsOf(i, "ISSUER_AUTH", CheckCertificate)
            sig == PositionsOf(i, "ISSUER_AUTH", CheckIssuerSignature)
        IN /\ \A k \in sig : log[k].status = PassFail(IssuerSignatureValid(a))
           /\ opts.disableCertificateChainValidation =>
                (cert = {} /\ Cardinality(sig) = 1)
           /\ ~opts.disableCertificateChainValidation =>
                /\ Cardinality(cert) = 1
                /\ \A k \in cert :
                    /\ log[k].status = PassFail(X509ChainValid(a))
                    /\ log[k].reason = (IF X509ChainValid(a) THEN NoReason
                                        ELSE "No valid certificate paths found")
                    /\ \A j \in sig : k < j
                /\ (X509ChainValid(a) \/ opts.mode = "collect") => Cardinality(sig) = 1

\* C11 witness: chain validation is disabled and the invalid issuer signature
\* of a document is reported.
C11_Witness ==
    /\ Called /\ opts.disableCertificateChainValidation
    /\ \E i \in 1..Len(docs) :
        /\ docs[i].issuerAuth.certificate # NoCertificate
        /\ \E k \in PositionsOf(i, "ISSUER_AUTH", CheckIssuerSignature) : Failed(k)

\* C12: 'The MSO signed date must be within the validity period of the
\* certificate' is PASSED exactly when notBefore <= validityInfo.signed <=
\* notAfter, both bounds included, and FAILED otherwise.
C12_SignedDateInclusive ==
    \A i \in 1..Len(docs) :
        LET a == docs[i].issuerAuth
            at == PositionsOf(i, "ISSUER_AUTH", CheckSignedDate)
        IN /\ \A k \in at :
                /\ a.certificate # NoCertificate /\ a.validityInfo # NoValidityInfo
                /\ log[k].status \in {"PASSED", "FAILED"}
                /\ (log[k].status = "PASSED") =
                        (/\ a.certificate.notBefore <= a.validityInfo.signed
                         /\ a.validityInfo.signed <= a.certificate.notAfter)
           /\ (/\ opts.mode = "collect"
               /\ a.certificate # NoCertificate /\ a.validityInfo # NoValidityInfo)
                => Cardinality(at) = 1

\* C12 witness: an MSO signed at the very notAfter of the certificate got a
\* PASSED signed-date assessment.
C12_Witness ==
    \E i \in 1..Len(docs) :
        /\ docs[i].issuerAuth.certificate # NoCertificate
        /\ docs[i].issuerAuth.validityInfo # NoValidityInfo
        /\ docs[i].issuerAuth.validityInfo.signed = docs[i].issuerAuth.certificate.notAfter
        /\ \E k \in PositionsOf(i, "ISSUER_AUTH", CheckSignedDate) : log[k].status = "PASSED"

\* C13: 'The MSO must be valid at the time of verification' is PASSED exactly
\* when validFrom <= now <= validUntil, both bounds included; an MSO whose
\* validUntil is before now gets FAILED with a reason that contains the text
\* of the check.
C13_MsoValidNow ==
    \A i \in 1..Len(docs) :
        LET a == docs[i].issuerAuth
            at == PositionsOf(i, "ISSUER_AUTH", CheckMsoValid)
        IN /\ \A k \in at :
                /\ a.validityInfo # NoValidityInfo
                /\ log[k].status \in {"PASSED", "FAILED"}
                /\ (log[k].status = "PASSED") =
                        (/\ a.validityInfo.validFrom <= a.now
                         /\ a.now <= a.validityInfo.validUntil)
                /\ (a.validityInfo.validUntil < a.now) =>
                        /\ Failed(k)
                        /\ log[k].reason = CheckMsoValid \o " (" \o ToString(a.now) \o ")"
           /\ (/\ opts.mode = "collect"
               /\ a.certificate # NoCertificate /\ a.validityInfo # NoValidityInfo)
                => Cardinality(at) = 1

\* C13 witness: an MSO that expired before the verification got its FAILED
\* assessment.
C13_Witness ==
    \E i \in 1..Len(docs) :
        /\ docs[i].issuerAuth.validityInfo # NoValidityInfo
        /\ docs[i].issuerAuth.validityInfo.validUntil < docs[i].issuerAuth.now
        /\ \E k \in PositionsOf(i, "ISSUER_AUTH", CheckMsoValid) : Failed(k)

\* The DEVICE_AUTH assessments of document i, in the order of delivery.
DeviceAuthItems(i) ==
    LET IsDeviceAuth(item) == item.doc = i /\ item.category = "DEVICE_AUTH"
    IN SelectSeq(log, IsDeviceAuth)

\* The preconditions of device authentication.
NotDeviceSigned(i) == ~docs[i].deviceSigned.deviceSigned
NoProof(i) ==
    /\ docs[i].deviceSigned.deviceSigned
    /\ ~docs[i].deviceSigned.deviceAuth.deviceSignature
    /\ ~docs[i].deviceSigned.deviceAuth.deviceMac
NoTranscript(i) == docs[i].deviceSigned.deviceSigned /\ ~opts.encodedSessionTranscript
NoDeviceKey(i) ==
    docs[i].deviceSigned.deviceSigned /\ docs[i].deviceSigned.deviceKey = "absent"

PreconditionChecks ==
    {CheckDeviceSigned, CheckProofPresent, CheckTranscript, CheckDeviceKey}

\* The call was stopped by the device authentication of document i.
RaisedInDevicePhase(i) ==
    pc = "raised" /\ cur = i /\ docs[i].nameSpaces = Unread

\* C14: each precondition failure of device authentication (issuer-only
\* document, neither proof, no session transcript, MSO without deviceKey)
\* gives exactly one DEVICE_AUTH assessment for the document, FAILED, and no
\* signature or MAC verification is attempted after it.
C14_PreconditionFailsOnce ==
    \A i \in 1..Len(docs) :
        (/\ docs[i].deviceSigned # Unread
         /\ (NotDeviceSigned(i) \/ NoProof(i) \/ NoTranscript(i) \/ NoDeviceKey(i))) =>
            /\ Len(DeviceAuthItems(i)) = 1
            /\ DeviceAuthItems(i)[1].status = "FAILED"
            /\ DeviceAuthItems(i)[1].check \in PreconditionChecks
            /\ RaisedInDevicePhase(i) => error.name = "MDLError"

\* C14 witness: with a callback that never raises, a document whose MSO has
\* no deviceKey went on to the data phase after its one FAILED assessment.
C14_Witness ==
    /\ Called /\ opts.mode = "collect"
    /\ \E i \in 1..Len(docs) :
        /\ docs[i].deviceSigned # Unread /\ NoDeviceKey(i)
        /\ docs[i].nameSpaces # Unread
        /\ Len(DeviceAuthItems(i)) = 1

FirstFailedPrecondition(i) ==
    IF NotDeviceSigned(i) THEN CheckDeviceSigned
    ELSE IF NoProof(i) THEN CheckProofPresent
    ELSE IF NoTranscript(i) THEN CheckTranscript
    ELSE CheckDeviceKey

OnMacPath(i) ==
    /\ docs[i].deviceSigned # Unread
    /\ ~NotDeviceSigned(i) /\ ~NoTranscript(i) /\ ~NoDeviceKey(i)
    /\ docs[i].deviceSigned.deviceAuth.deviceMac
    /\ ~docs[i].deviceSigned.deviceAuth.deviceSignature

MacPathOrder == <<CheckMacPresent, CheckMacAlg, CheckEphemeralKey, CheckDeviceMac>>

\* C16: on the MAC path the DEVICE_AUTH assessments are delivered in the
\* order MAC present, MAC algorithm, ephemeral key, MAC valid, and delivery
\* stops at the first FAILED one.  Without ephemeralReaderKey the last one is
\* the FAILED ephemeral-key assessment and no MAC-valid assessment is
\* delivered; with an unsupported algorithm neither the ephemeral-key nor the
\* MAC-valid assessment is delivered.
C16_MacPathOrder ==
    \A i \in 1..Len(docs) :
        OnMacPath(i) =>
            LET items == DeviceAuthItems(i)
                d == docs[i].deviceSigned
            IN /\ Len(items) \in 1..4
               /\ \A k \in 1..Len(items) :
                    /\ items[k].check = MacPathOrder[k]
                    /\ k < Len(items) => items[k].status = "PASSED"
               /\ (d.macSupportedAlg /\ ~opts.ephemeralReaderKey) =>
                    /\ items[Len(items)].check = CheckEphemeralKey
                    /\ items[Len(items)].status = "FAILED"
               /\ ~d.macSupportedAlg =>
                    /\ items[Len(items)].check = CheckMacAlg
                    /\ items[Len(items)].status = "FAILED"

\* Document i went down the signature path: deviceSignature present,
\* preconditions met.
OnSignaturePath(i) ==
    /\ docs[i].deviceSigned # Unread
    /\ ~NotDeviceSigned(i) /\ ~NoTranscript(i) /\ ~NoDeviceKey(i)
    /\ docs[i].deviceSigned.deviceAuth.deviceSignature

\* C17: on the signature path, with an onCheck that never raises, exactly one
\* 'Device signature must be valid' assessment is delivered; it is PASSED
\* exactly when the COSE_Sign1 verification with the deviceKey of the MSO
\* succeeds and FAILED both when it returns false and when it raises,
\* whether or not an ephemeralReaderKey was supplied.
C17_OneSignatureAssessment ==
    \A i \in 1..Len(docs) :
        (OnSignaturePath(i) /\ opts.mode = "collect") =>
            LET items == DeviceAuthItems(i)
            IN /\ Len(items) = 1
               /\ items[1].check = CheckDeviceSignature
               /\ items[1].status = PassFail(docs[i].deviceSigned.signatureVerify = "true")

\* The namespaces of document i whose elements have been verified, each with
\* its disclosed elements.
Disclosed(i) == Range(docs[i].elements)

ElementChecks ==
    {CheckElementDigest(ns, id) : ns \in {MDL_NAMESPACE, OTHER_NAMESPACE}, id \in ElementIds}

\* C18: every disclosed IssuerSignedItem gets exactly one DATA_INTEGRITY
\* assessment that names '<ns>/<elementIdentifier>', PASSED exactly when its
\* digest matches the MSO and FAILED otherwise; the reason ?? check of the
\* FAILED assessment of a mutated element names that element.  (A raising
\* callback stops the deliveries at the first FAILED one, so "exactly one" is
\* "at most one" there.)
C18_DigestBinding ==
    \A i \in 1..Len(docs) :
        /\ \A e \in Disclosed(i) : \A k \in 1..Len(e.items) :
            LET check == CheckElementDigest(e.ns, e.items[k].elementIdentifier)
                at == PositionsOf(i, "DATA_INTEGRITY", check)
            IN /\ Cardinality(at) <= 1
               /\ opts.mode = "collect" => Cardinality(at) = 1
               /\ \A p \in at :
                    /\ log[p].status = PassFail(e.items[k].isValid)
                    /\ Failed(p) => ReasonOrCheck(log[p]) = check
        /\ \A p \in Positions :
            (log[p].doc = i /\ log[p].check \in ElementChecks) =>
                \E e \in Disclosed(i) : \E k \in 1..Len(e.items) :
                    log[p].check = CheckElementDigest(e.ns, e.items[k].elementIdentifier)

\* C18 witness: with a callback that never raises, an element whose digest
\* does not match got its FAILED assessment next to a PASSED one of another
\* element.
C18_Witness ==
    /\ Called /\ opts.mode = "collect"
    /\ \E i \in 1..Len(docs) : \E e \in Disclosed(i) : \E j, k \in 1..Len(e.items) :
        /\ ~e.items[k].isValid /\ e.items[j].isValid
        /\ \E p \in PositionsOf(i, "DATA_INTEGRITY",
                        CheckElementDigest(e.ns, e.items[k].elementIdentifier)) : Failed(p)
        /\ \E p \in PositionsOf(i, "DATA_INTEGRITY",
                        CheckElementDigest(e.ns, e.items[j].elementIdentifier)) : ~Failed(p)

\* verifyData of document i got past its digest algorithm check.
NamespacesMapped(i) ==
    /\ docs[i].nameSpaces # Unread
    /\ (opts.mode = "collect" \/ docs[i].nameSpaces.digestAlgorithm \in DIGEST_ALGS)

\* C19: every namespace of issuerSigned.nameSpaces gets exactly one 'Issuer
\* Auth must include digests for namespace: <ns>' assessment, PASSED exactly
\* when the valueDigests of the MSO have an entry for it.
C19_NamespaceCoverage ==
    \A i \in 1..Len(docs) :
        docs[i].nameSpaces # Unread =>
            \A ns \in {MDL_NAMESPACE, OTHER_NAMESPACE} :
                LET at == PositionsOf(i, "DATA_INTEGRITY", CheckNamespaceDigests(ns))
                    present == ns \in Range(docs[i].nameSpaces.nameSpaces)
                IN /\ ~present => at = {}
                   /\ (present /\ NamespacesMapped(i)) => Cardinality(at) = 1
                   /\ Cardinality(at) <= 1
                   /\ \A p \in at :
                        log[p].status = PassFail(ns \in docs[i].nameSpaces.valueDigests)

\* C19 witness: of two disclosed namespaces the first has no digests in the
\* MSO; the callback raised on it and the second was assessed all the same.
C19_Witness ==
    /\ Called /\ opts.mode # "collect"
    /\ \E i \in 1..Len(docs) :
        /\ docs[i].nameSpaces # Unread
        /\ Len(docs[i].nameSpaces.nameSpaces) = 2
        /\ docs[i].nameSpaces.nameSpaces[1] \notin docs[i].nameSpaces.valueDigests
        /\ \E p \in PositionsOf(i, "DATA_INTEGRITY",
                        CheckNamespaceDigests(docs[i].nameSpaces.nameSpaces[1])) : Failed(p)
        /\ \E p \in PositionsOf(i, "DATA_INTEGRITY",
                        CheckNamespaceDigests(docs[i].nameSpaces.nameSpaces[2])) : ~Failed(p)

\* The disclosed elements of the mDL namespace of document i with a given
\* identifier.
MdlElements(i, id) ==
    {el \in UNION {Range(e.items) : e \in {x \in Disclosed(i) : x.ns = MDL_NAMESPACE}} :
        el.elementIdentifier = id}

\* The mDL namespace of document i has been verified.
MdlDisclosed(i) == \E e \in Disclosed(i) : e.ns = MDL_NAMESPACE

\* C20: in namespace org.iso.18013.5.1 the 'issuing_country' assessment is
\* FAILED exactly when a disclosed issuing_country element has a value
\* different from the countryName of the certificate, and PASSED when
\* issuing_country is not disclosed or equals countryName.
C20_CountryCoupling ==
    \A i \in 1..Len(docs) :
        MdlDisclosed(i) =>
            \A p \in PositionsOf(i, "DATA_INTEGRITY", CheckIssuingCountry) :
                Failed(p) = (\E el \in MdlElements(i, "issuing_country") :
                                el.elementValue # CountryName(docs[i].issuerAuth))

\* The reason that pairs a disclosed issuing_country with the countryName.
CountryMismatch(value, countryName) ==
    "The 'issuing_country' (" \o value \o ") must match the 'countryName' ("
        \o countryName \o ") in the subject field within the issuer certificate"

\* C20 amended: when the certificate has an issuer name, the
\* 'issuing_country' assessment is FAILED exactly when a disclosed
\* issuing_country element has a digest that does not match or a value
\* different from countryName, with a reason that pairs the disclosed value
\* with countryName, and PASSED otherwise; when the certificate has no issuer
\* name it is FAILED whatever is disclosed.  It is delivered at most once,
\* and once when the callback never raises.
C20_CountryOrDigest ==
    \A i \in 1..Len(docs) :
        MdlDisclosed(i) =>
            LET a == docs[i].issuerAuth
                at == PositionsOf(i, "DATA_INTEGRITY", CheckIssuingCountry)
                bad == {el \in MdlElements(i, "issuing_country") :
                            ~el.isValid \/ el.elementValue # CountryName(a)}
            IN /\ Cardinality(at) <= 1
               /\ opts.mode = "collect" => Cardinality(at) = 1
               /\ \A p \in at :
                    IF ~a.certificate.issuerName
                        THEN Failed(p)
                        ELSE /\ Failed(p) = (bad # {})
                             /\ Failed(p) =>
                                    \E el \in bad :
                                        log[p].reason =
                                            CountryMismatch(el.elementValue, CountryName(a))
                             /\ ~Failed(p) => log[p].reason = NoReason

\* C20 witness: a disclosed issuing_country that equals the countryName of the
\* certificate but whose digest does not match got a FAILED 'issuing_country'
\* assessment.
C20_Witness ==
    \E i \in 1..Len(docs) :
        /\ MdlDisclosed(i)
        /\ docs[i].issuerAuth.certificate.issuerName
        /\ \E el \in MdlElements(i, "issuing_country") :
                ~el.isValid /\ el.elementValue = CountryName(docs[i].issuerAuth)
        /\ \E p \in PositionsOf(i, "DATA_INTEGRITY", CheckIssuingCountry) : Failed(p)

\* C21: in namespace org.iso.18013.5.1 a disclosed issuing_jurisdiction is
\* compared with the certificate only when the certificate has a
\* stateOrProvinceName: without one the 'issuing_jurisdiction' assessment is
\* PASSED for any disclosed value with a valid digest, with one it is FAILED
\* when the disclosed value differs from it.
C21_JurisdictionOnlyWithState ==
    \A i \in 1..Len(docs) :
        MdlDisclosed(i) =>
            LET a == docs[i].issuerAuth
                at == PositionsOf(i, "DATA_INTEGRITY", CheckIssuingJurisdiction)
                disclosed == MdlElements(i, "issuing_jurisdiction")
            IN /\ Cardinality(at) <= 1
               /\ (opts.mode = "collect" /\ a.certificate.issuerName) => Cardinality(at) = 1
               /\ \A p \in at :
                    /\ (/\ a.certificate.stateOrProvince = NoName
                        /\ \A el \in disclosed : el.isValid) => ~Failed(p)
                    /\ (/\ a.certificate.stateOrProvince # NoName
                        /\ \E el \in disclosed :
                                el.elementValue # a.certificate.stateOrProvince) => Failed(p)

\* C21 witness: the certificate has no stateOrProvinceName and a disclosed
\* issuing_jurisdiction with a valid digest got a PASSED assessment.
C21_Witness ==
    \E i \in 1..Len(docs) :
        /\ MdlDisclosed(i)
        /\ docs[i].issuerAuth.certificate.stateOrProvince = NoName
        /\ \E el \in MdlElements(i, "issuing_jurisdiction") : el.isValid
        /\ \E p \in PositionsOf(i, "DATA_INTEGRITY", CheckIssuingJurisdiction) : ~Failed(p)

\* The promise returned by verify has settled.
Settled == pc \in {"returned", "raised"}

\* C26: once the promise returned by verify has settled (returned or raised)
\* no further assessment is delivered to onCheck, also when onCheck raised
\* on a FAILED DATA_INTEGRITY assessment of one namespace while the elements
\* of other namespaces were still being verified.
C26_NoDeliveryAfterSettle == [][Settled => log' = log]_vars

\* The DOCUMENT_FORMAT assessments, in the order of delivery.
DocumentFormatItems ==
    LET IsFormat(item) == item.category = "DOCUMENT_FORMAT"
    IN SelectSeq(log, IsFormat)

\* C27: for every parsed DeviceResponse verify first delivers exactly three
\* DOCUMENT_FORMAT assessments, in this order: 'version' present (FAILED iff
\* the version is missing), version 1.0 or greater (FAILED iff the version
\* compares below 1.0), at least one document (FAILED iff there is none).
\* (Stated for a callback that never raises: a raising one stops at the
\* first FAILED assessment.)
C27_ThreeFormatAssessments ==
    (Called /\ Parsed /\ opts.mode = "collect") =>
        /\ Len(DocumentFormatItems) = 3
        /\ SubSeq(log, 1, 3) = DocumentFormatItems
        /\ log[1].check = CheckVersionPresent
        /\ Failed(1) = ~dr.version.defined
        /\ log[2].check = CheckVersionSupported
        /\ Failed(2) = (dr.version.defined => dr.version.major < 1)
        /\ log[3].check = CheckHasDocument
        /\ Failed(3) = (dr.nDocs = 0)

\* The response passes the two version checks.
VersionSupported == dr.version.defined /\ dr.version.major >= 1

IssuerAuthChecks(i) ==
    LET IsIssuerAuth(item) == item.doc = i /\ item.category = "ISSUER_AUTH"
        items == SelectSeq(log, IsIssuerAuth)
    IN [k \in 1..Len(items) |-> items[k].check]

\* C28: ISSUER_AUTH never short-circuits.  With a callback that never raises
\* and a document that has a leaf certificate and a validityInfo, the
\* assessments of the document are, in order, certificate chain (unless
\* disabled), issuer signature, signed date, MSO valid now, countryName: five
\* with chain validation and four without, whichever of them are FAILED; the
\* countryName one is FAILED iff the subject has no countryName.
C28_IssuerAuthNeverShortCircuits ==
    \A i \in 1..Len(docs) :
        LET a == docs[i].issuerAuth IN
        (/\ opts.mode = "collect"
         /\ a.certificate # NoCertificate /\ a.validityInfo # NoValidityInfo) =>
            /\ IssuerAuthChecks(i) =
                    (IF opts.disableCertificateChainValidation
                        THEN <<>> ELSE <<CheckCertificate>>)
                    \o <<CheckIssuerSignature, CheckSignedDate, CheckMsoValid,
                          CheckCountryName>>
            /\ \A p \in PositionsOf(i, "ISSUER_AUTH", CheckCountryName) :
                    Failed(p) = (a.certificate.countryName = NoName)

\* C28 witness: the issuer signature of a document is FAILED and its
\* countryName assessment was delivered all the same.
C28_Witness ==
    /\ Called /\ opts.mode = "collect"
    /\ \E i \in 1..Len(docs) :
        /\ docs[i].issuerAuth.certificate # NoCertificate
        /\ docs[i].issuerAuth.validityInfo # NoValidityInfo
        /\ \E p \in PositionsOf(i, "ISSUER_AUTH", CheckIssuerSignature) : Failed(p)
        /\ PositionsOf(i, "ISSUER_AUTH", CheckCountryName) # {}

\* The DATA_INTEGRITY assessments of document i, in the order of delivery.
DataIntegrityItems(i) ==
    LET IsDataIntegrity(item) == item.doc = i /\ item.category = "DATA_INTEGRITY"
    IN SelectSeq(log, IsDataIntegrity)

----------------------------------------------------------------------------
\* The report of getDiagnosticInformation.

Reported == diag # NoDiagnostic /\ pc = "reported"

\* The positions of the collected FAILED assessments of a category.
FailedOf(category) ==
    {k \in Positions : log[k].category = category /\ log[k].status = "FAILED"}

\* part.isValid holds exactly when every collected assessment of the
\* category PASSED, and part.reasons lists reason ?? check of its FAILED
\* assessments in delivery order.
VerdictMatches(part, category) ==
    LET F == FailedOf(category) IN
    /\ part.isValid <=>
            (\A k \in Positions : log[k].category = category => log[k].status = "PASSED")
    /\ Len(part.reasons) = Cardinality(F)
    /\ \A k \in F :
            part.reasons[Cardinality({j \in F : j <= k})] = ReasonOrCheck(log[k])

\* C22: in the report, for each of ISSUER_AUTH, DEVICE_AUTH and
\* DATA_INTEGRITY, isValid is true exactly when every collected assessment of
\* that category is PASSED, and reasons is the list, in delivery order, of
\* reason ?? check of the collected FAILED assessments of that category.
C22_VerdictPerCategory ==
    Reported =>
        /\ VerdictMatches(diag.report.issuerSignature, "ISSUER_AUTH")
        /\ VerdictMatches(diag.report.dataIntegrity, "DATA_INTEGRITY")
        /\ diag.report.deviceSignature # Undefined =>
                VerdictMatches(diag.report.deviceSignature, "DEVICE_AUTH")

\* A report with two reasons in one part, a part that is invalid although
\* one of its assessments PASSED, and a valid part.
C22_Witness ==
    /\ Reported
    /\ Len(diag.report.issuerSignature.reasons) = 2
    /\ diag.report.issuerSignature.reasons[1] # diag.report.issuerSignature.reasons[2]
    /\ \E k \in Positions : log[k].category = "ISSUER_AUTH" /\ log[k].status = "PASSED"
    /\ diag.report.deviceSignature # Undefined
    /\ diag.report.deviceSignature.isValid
    /\ diag.report.dataIntegrity.isValid

\* C23: deviceSignature and deviceAttributes are absent from the report
\* exactly when documents[0] is an issuer-only document, although a FAILED
\* DEVICE_AUTH assessment was collected for it; for a device-signed
\* documents[0] deviceSignature is present and its alg is that of the
\* deviceSignature, else that of the deviceMac.
C23_DevicePartsOnlyWhenDeviceSigned ==
    Reported =>
        LET d == docs[1].deviceSigned
            part == diag.report.deviceSignature IN
        /\ part = Undefined <=> ~d.deviceSigned
        /\ diag.report.deviceAttributes = Undefined <=> ~d.deviceSigned
        /\ ~d.deviceSigned =>
                \E k \in FailedOf("DEVICE_AUTH") :
                    log[k].doc = 1 /\ log[k].check = CheckDeviceSigned
        /\ d.deviceSigned /\ d.deviceAuth.deviceSignature => part.alg = "ES256"
        /\ d.deviceSigned /\ ~d.deviceAuth.deviceSignature /\ d.deviceAuth.deviceMac =>
                part.alg = IF d.macSupportedAlg THEN "HS256" ELSE "HS512"
        /\ d.deviceSigned /\ ~d.deviceAuth.deviceSignature /\ ~d.deviceAuth.deviceMac =>
                part.alg = NoName

\* An issuer-only documents[0] is reported: the FAILED DEVICE_AUTH assessment
\* was collected and the report has no deviceSignature.
C23_Witness ==
    /\ Reported
    /\ ~docs[1].deviceSigned.deviceSigned
    /\ \E k \in FailedOf("DEVICE_AUTH") : log[k].doc = 1
    /\ diag.report.deviceSignature = Undefined
    /\ diag.report.deviceAttributes = Undefined

\* C24: getDiagnosticInformation runs verify with its own collector in place
\* of the caller's onCheck, and returns a report instead of raising whichever
\* checks are FAILED; stated here for the case the claim names, a parsed
\* response (with a version) whose documents list is empty.
C24_ReportsEmptyDocuments ==
    (diag # NoDiagnostic /\ Parsed /\ dr.version.defined /\ dr.nDocs = 0) =>
        /\ opts.mode = "collect"
        /\ pc # "raised"

----------------------------------------------------------------------------
\* Two interleaved calls.

\* What the namespace callbacks that resumed delivered, in the order in
\* which they resumed.
RECURSIVE ElementsAlone(_, _, _, _)
ElementsAlone(mode, i, a, done) ==
    IF done = <<>> THEN <<>>
    ELSE NamespaceChecks(mode, i, a, Head(done).ns, Head(done).items).out
            \o ElementsAlone(mode, i, a, Tail(done))

\* What the phases of document i deliver, as far as the call has read it.
DocumentAlone(o, i, d) ==
    verifyIssuerSignature(o.mode, o.disableCertificateChainValidation, i, d.issuerAuth).out
    \o (IF d.deviceSigned = Unread THEN <<>>
        ELSE verifyDeviceSignature(o.mode, o.encodedSessionTranscript,
                                   o.ephemeralReaderKey, i, d.deviceSigned).out)
    \o (IF d.nameSpaces = Unread THEN <<>>
        ELSE LET first == DigestAlgorithmCheck(o.mode, i, d.nameSpaces) IN
             IF first.err # NoError THEN first.out
             ELSE first.out
                  \o MapNamespaces(o.mode, i, d.nameSpaces, d.nameSpaces.nameSpaces).out
                  \o ElementsAlone(o.mode, i, d.issuerAuth, d.elements))

RECURSIVE DocumentsAlone(_, _, _)
DocumentsAlone(o, ds, i) ==
    IF i > Len(ds) THEN <<>>
    ELSE DocumentAlone(o, i, ds[i]) \o DocumentsAlone(o, ds, i + 1)

\* The assessments a call with these options delivers when it runs alone and
\* reads this response and these documents.
RunAlone(c) ==
    IF c.pc = "idle" THEN <<>>
    ELSE verify(c.opts, c.dr).out \o DocumentsAlone(c.opts, c.docs, 1)

\* The callback of the call received the assessments of its own call; a
\* getDiagnosticInformation reports from them.
OwnAssessments(c) ==
    /\ c.log = RunAlone(c)
    /\ c.pc = "reported" =>
        c.diag.report = Report(c.dr, c.docs[1], c.log, c.diag.report.issuerSignature.digests)

\* C25: verify and getDiagnosticInformation are reentrant: when two calls on
\* one Verifier are interleaved at their awaits, the onCheck of each call
\* receives exactly the assessments of its own call, in the sequence it
\* receives when the call runs alone, and no call modifies
\* issuersRootCertificates.
C25_Reentrant ==
    /\ OwnAssessments(Locals)
    /\ other # NoCall => OwnAssessments(other)
    /\ issuersRootCertificates = TrustedRoots

\* Both calls are in progress: a getDiagnosticInformation suspended in its
\* data phase that collected a FAILED assessment, and a verify past its
\* issuer phase whose callback received PASSED assessments only.
C25_Witness ==
    /\ other # NoCall
    /\ other.pc = "join" /\ other.pending # {}
    /\ other.diag # NoDiagnostic
    /\ \E k \in 1..Len(other.log) : other.log[k].status = "FAILED"
    /\ pc = "device"
    /\ diag = NoDiagnostic
    /\ Len(log) > 3
    /\ \A k \in Positions : log[k].status = "PASSED"

----------------------------------------------------------------------------
\* The order of the assessments of one namespace.

\* The positions of the DATA_INTEGRITY assessments of namespace ns of
\* document i: its digests check, its element checks and, for the mDL
\* namespace, the two certificate cross-checks.
NamespacePositions(i, ns) ==
    {p \in Positions :
        /\ log[p].doc = i
        /\ log[p].category = "DATA_INTEGRITY"
        /\ \/ log[p].check = CheckNamespaceDigests(ns)
           \/ \E id \in ElementIds : log[p].check = CheckElementDigest(ns, id)
           \/ ns = MDL_NAMESPACE
                /\ log[p].check \in {CheckIssuingCountry, CheckIssuingJurisdiction}}

\* The place of an assessment in the order of its namespace.
Stage(item, ns) ==
    CASE item.check = CheckNamespaceDigests(ns) -> 1
      [] item.check = CheckIssuingCountry -> 4
      [] item.check = CheckIssuingJurisdiction -> 5
      [] OTHER -> IF item.status = "PASSED" THEN 2 ELSE 3

\* The index in l of the element an element assessment is about (0: none).
ElementIndex(item, ns, l) ==
    IF \E k \in 1..Len(l) : item.check = CheckElementDigest(ns, l[k].elementIdentifier)
        THEN CHOOSE k \in 1..Len(l) : item.check = CheckElementDigest(ns, l[k].elementIdentifier)
        ELSE 0

CrossCheckReasonNoIssuer ==
    "The 'issuing_country' and 'issuing_jurisdiction' cannot be verified because the DS certificate was not provided"

\* C31: within one namespace the DATA_INTEGRITY assessments are delivered in
\* the order: namespace-has-digests, the PASSED element assessments in element
\* order, the FAILED element assessments in element order, then for
\* org.iso.18013.5.1 only the issuing_country and the issuing_jurisdiction
\* assessment.  When the callback does not raise, the two cross-checks are
\* delivered even when neither element is disclosed (both PASSED then), and
\* a single FAILED assessment replaces them when the certificate has no
\* issuer name.
C31_NamespaceOrder ==
    \A i \in 1..Len(docs) : \A e \in Disclosed(i) :
        LET P == NamespacePositions(i, e.ns)
            cross == {p \in P : Stage(log[p], e.ns) \in {4, 5}}
            has(id) == \E k \in 1..Len(e.items) : e.items[k].elementIdentifier = id
        IN
        /\ \A p, q \in P : p < q =>
                /\ Stage(log[p], e.ns) <= Stage(log[q], e.ns)
                /\ (Stage(log[p], e.ns) = Stage(log[q], e.ns)
                        /\ Stage(log[p], e.ns) \in {2, 3}) =>
                    ElementIndex(log[p], e.ns, e.items) < ElementIndex(log[q], e.ns, e.items)
        /\ e.ns # MDL_NAMESPACE => cross = {}
        /\ (e.ns = MDL_NAMESPACE /\ opts.mode = "collect") =>
                IF docs[i].issuerAuth.certificate.issuerName
                    THEN /\ Cardinality(cross) = 2
                         /\ \E p, q \in cross :
                                /\ p < q
                                /\ log[p].check = CheckIssuingCountry
                                /\ log[q].check = CheckIssuingJurisdiction
                                /\ (~has("issuing_country") /\ ~has("issuing_jurisdiction")) =>
                                        log[p].status = "PASSED" /\ log[q].status = "PASSED"
                    ELSE /\ Cardinality(cross) = 1
                         /\ \A p \in cross :
                                /\ log[p].status = "FAILED"
                                /\ log[p].check = CheckIssuingCountry
                                /\ log[p].reason = CrossCheckReasonNoIssuer

\* C31 witness: the mDL namespace of a document disclosed an invalid element
\* before a valid one; the valid one was assessed first and both cross-checks
\* followed.
C31_Witness ==
    \E i \in 1..Len(docs) : \E e \in Disclosed(i) :
        /\ e.ns = MDL_NAMESPACE
        /\ Len(e.items) = 2
        /\ ~e.items[1].isValid /\ e.items[2].isValid
        /\ \E p, q, r, t \in NamespacePositions(i, e.ns) :
            /\ p < q /\ q < r /\ r < t
            /\ ElementIndex(log[p], e.ns, e.items) = 2
            /\ ElementIndex(log[q], e.ns, e.items) = 1
            /\ log[r].check = CheckIssuingCountry
            /\ log[t].check = CheckIssuingJurisdiction

----------------------------------------------------------------------------
\* The report and the documents of the response.

\* part.isValid and part.reasons are those of the assessments of the
\* category that were produced for documents[0].
VerdictOfFirstDocument(part, category) ==
    LET F == {k \in FailedOf(category) : log[k].doc = 1} IN
    /\ part.isValid <=>
            (\A k \in Positions :
                (log[k].category = category /\ log[k].doc = 1) => log[k].status = "PASSED")
    /\ Len(part.reasons) = Cardinality(F)
    /\ \A k \in F :
            part.reasons[Cardinality({j \in F : j <= k})] = ReasonOrCheck(log[k])

\* C32: the report describes documents[0] only: isValid and reasons of
\* issuerSignature, deviceSignature and dataIntegrity depend only on the
\* assessments produced for documents[0]; FAILED checks of a second document
\* of the response do not change them.
C32_FirstDocumentOnly ==
    Reported =>
        /\ VerdictOfFirstDocument(diag.report.issuerSignature, "ISSUER_AUTH")
        /\ VerdictOfFirstDocument(diag.report.dataIntegrity, "DATA_INTEGRITY")
        /\ diag.report.deviceSignature # Undefined =>
                VerdictOfFirstDocument(diag.report.deviceSignature, "DEVICE_AUTH")

----------------------------------------------------------------------------
\* The statuses.

ReportParts ==
    {diag.report.issuerSignature, diag.report.dataIntegrity}
    \cup (IF diag.report.deviceSignature = Undefined THEN {}
          ELSE {diag.report.deviceSignature})

\* C33: every assessment the verifier delivers has status PASSED or FAILED,
\* never WARNING; so in every report, for each category block, isValid is
\* true if and only if reasons is empty.
C33_NoWarning ==
    /\ \A k \in Positions : log[k].status \in {"PASSED", "FAILED"}
    /\ Reported => \A part \in ReportParts : part.isValid <=> part.reasons = <<>>

\* C33 witness: a report whose dataIntegrity block is invalid with a reason
\* and whose issuerSignature block is valid without one.
C33_Witness ==
    /\ Reported
    /\ ~diag.report.dataIntegrity.isValid
    /\ diag.report.dataIntegrity.reasons # <<>>
    /\ diag.report.issuerSignature.isValid
    /\ diag.report.issuerSignature.reasons = <<>>
    /\ \E k \in Positions : log[k].category = "ISSUER_AUTH"

----------------------------------------------------------------------------
\* The categories.

\* The phase whose code holds the check with this text.
PhaseOfCheck(check) ==
    CASE check \in {CheckVersionPresent, CheckVersionSupported, CheckHasDocument} ->
            "DOCUMENT_FORMAT"
      [] check \in {CheckCertificate, CheckIssuerSignature, CheckSignedDate, CheckMsoValid,
                    CheckCountryName} ->
            "ISSUER_AUTH"
      [] check \in {CheckDeviceSigned, CheckProofPresent, CheckTranscript, CheckDeviceKey,
                    CheckDeviceSignature, CheckMacPresent, CheckMacAlg, CheckEphemeralKey,
                    CheckDeviceMac} ->
            "DEVICE_AUTH"
      [] check \in {CheckDigestAlgorithm, CheckIssuingCountry, CheckIssuingJurisdiction}
                    \cup ElementChecks
                    \cup {CheckNamespaceDigests(ns) : ns \in {MDL_NAMESPACE, OTHER_NAMESPACE}} ->
            "DATA_INTEGRITY"
      [] OTHER -> "<unknown>"

\* C34: every assessment delivered to onCheck carries the category of the
\* phase that produced it (verifyIssuerSignature ISSUER_AUTH,
\* verifyDeviceSignature DEVICE_AUTH, verifyData DATA_INTEGRITY, the three
\* checks of verify DOCUMENT_FORMAT), whatever category the item had; check,
\* status and reason are those the check site wrote: a missing device key
\* keeps its reason, an element assessment has none.
C34_PhaseCategory ==
    \A k \in Positions :
        /\ log[k].category \in Categories
        /\ log[k].category = PhaseOfCheck(log[k].check)
        /\ log[k].category = "DOCUMENT_FORMAT" <=> log[k].doc = 0
        /\ log[k].check = CheckDeviceKey =>
                /\ log[k].status = "FAILED"
                /\ log[k].reason =
                    "Unable to verify deviceAuth signature: missing device key in issuerAuth"
        /\ log[k].check \in ElementChecks => log[k].reason = NoReason

\* C34 witness: a call whose callback received assessments of all four
\* categories, one of them with a reason.
C34_Witness ==
    /\ \A c \in Categories : \E k \in Positions : log[k].category = c
    /\ \E k \in Positions : log[k].reason # NoReason

----------------------------------------------------------------------------
\* A callback that delegates to original.

\* The running call, had it been made without a callback.
WithoutCallback == [Locals EXCEPT !.opts = [opts EXCEPT !.mode = "default"]]

\* C35: a caller's onCheck is called as callback(item, original) with
\* original the default callback: original(item) raises
\* MDLError(reason ?? check) iff the item is FAILED and does nothing
\* otherwise.  So a caller that always delegates to original gets from verify
\* the raise-or-return outcome of a call without callback: the same
\* assessments are delivered, a FAILED one makes the call raise, and the call
\* returns only when none was FAILED.
C35_DelegateIsDefault ==
    (Called /\ opts.mode = "delegate") =>
        /\ \A k \in Positions :
            /\ buildCallback(opts.mode, log[k]) = defaultCallback(log[k])
            /\ defaultCallback(log[k]) =
                    IF Failed(k) THEN MDLError(ReasonOrCheck(log[k])) ELSE NoError
        /\ log = RunAlone(WithoutCallback)
        /\ AnyFailed => Raising
        /\ pc = "returned" => ~AnyFailed

\* C35 witness: a delegating callback made verify raise on a FAILED
\* assessment that followed PASSED ones.
C35_Witness ==
    /\ Called /\ opts.mode = "delegate"
    /\ pc = "raised"
    /\ Len(log) > 3
    /\ Failed(Len(log))
    /\ error = MDLError(ReasonOrCheck(log[Len(log)]))

----------------------------------------------------------------------------
\* The disclosed attributes of the report.

\* The disclosed items of documents[0] with a valid digest.
ValidItems ==
    UNION {{<<e.ns, j>> : j \in {x \in 1..Len(e.items) : e.items[x].isValid}}
            : e \in Disclosed(1)}

\* The digest entries of the MSO, over all namespaces of valueDigests.
DigestEntries ==
    LET digests == diag.report.issuerSignature.digests IN
    UNION {{<<ns, j>> : j \in 1..digests[ns]} : ns \in DOMAIN digests}

\* C36: dataIntegrity.disclosedAttributes is the string 'k of n', k the
\* number of disclosed issuer-signed attributes of documents[0] whose digest
\* is valid and n the number of digest entries over all namespaces of the
\* valueDigests of the MSO; k never exceeds the number of entries of the
\* attributes list of the report.
C36_DisclosedOfTotal ==
    Reported =>
        LET k == Cardinality(ValidItems)
            n == Cardinality(DigestEntries)
            IsValid(attr) == attr.isValid
        IN /\ diag.report.dataIntegrity.disclosedAttributes
                    = ToString(k) \o " of " \o ToString(n)
           /\ k = Len(SelectSeq(diag.report.attributes, IsValid))
           /\ k <= Len(diag.report.attributes)

\* C36 witness: a report of two attributes of which one is valid.
C36_Witness ==
    /\ Reported
    /\ Len(diag.report.attributes) = 2
    /\ Cardinality(ValidItems) = 1
    /\ diag.report.dataIntegrity.disclosedAttributes = "1 of 1"

----------------------------------------------------------------------------
\* MDoc.addDocument

\* C37: addDocument appends the document as the last element of documents
\* (the earlier documents unchanged in content and order) when its
\* issuerSigned is defined; when it is undefined the call raises 'Cannot add
\* an unsigned document' and leaves documents unchanged.  So every element of
\* documents has issuerSigned defined, and version and status never change.
C37_AddDocument ==
    [][/\ mdoc'.version = mdoc.version
       /\ mdoc'.status = mdoc.status
       /\ IF addDocumentCall'.document.issuerSigned
            THEN /\ mdoc'.documents = Append(mdoc.documents, addDocumentCall'.document)
                 /\ addDocumentCall'.error = NoError
            ELSE /\ mdoc'.documents = mdoc.documents
                 /\ addDocumentCall'.error = LibError("Cannot add an unsigned document")
       /\ \A k \in 1..Len(mdoc'.documents) : mdoc'.documents[k].issuerSigned
      ]_vars

\* C37 witness: an unsigned document was refused after documents had been
\* added to the MDoc.
C37_Witness ==
    /\ mdoc # NoMDoc
    /\ Len(mdoc.documents) = 2
    /\ mdoc.documents[1] # mdoc.documents[2]
    /\ addDocumentCall # NoCall
    /\ ~addDocumentCall.document.issuerSigned
    /\ addDocumentCall.error # NoError

\* C38: the tag-0 extension writes a Date as the fields of its ISO string down
\* to the seconds followed by Z, with no fraction; decoding what was written
\* gives the original instant rounded down to the whole second; and every later
\* encoding of a decoded Date writes the same text as the first.
C38_TdateRoundTrip ==
    (tdate # NoDate /\ tdate.texts # <<>>) =>
        /\ tdate.original.valid
        /\ Len(tdate.texts[1]) = 12
        /\ SubSeq(tdate.texts[1], 1, 11) = SubSeq(toISOString(tdate.original).text, 1, 11)
        /\ tdate.texts[1][12] = Sep("Z")
        /\ \A k \in 1..12 : tdate.texts[1][k] # Sep(".")
        /\ tdate.at = "date" =>
               /\ tdate.date = DateOf(tdate.original.sec, 0)
               /\ tdate.original.ms \in 0..999
        /\ \A k \in 1..Len(tdate.texts) : tdate.texts[k] = tdate.texts[1]
        /\ tdate.error = NoError

C38_Witness ==
    /\ tdate # NoDate
    /\ tdate.at = "date"
    /\ Len(tdate.texts) = 2
    /\ tdate.original.sec < 0
    /\ tdate.original.ms = 500
    /\ tdate.texts[1][1] = Num(1969, 4)
    /\ tdate.texts[1][11] = Num(59, 2)
    /\ tdate.date # tdate.original

----------------------------------------------------------------------------
\* The presence check of the MAC path.

\* C39: the assessment 'Device MAC must be present when using MAC
\* authentication' is delivered only for a document whose deviceAuth has no
\* deviceSignature and has a deviceMac, so its status is always PASSED and
\* the return that follows it is never taken: the assessment of the MAC
\* algorithm of the same document is delivered right after it.
C39_MacPresentNeverFailed ==
    \A k \in Positions :
        log[k].check = CheckMacPresent =>
            /\ log[k].status = "PASSED"
            /\ log[k].doc \in 1..Len(docs)
            /\ OnMacPath(log[k].doc)
            /\ k < Len(log)
            /\ log[k + 1].check = CheckMacAlg
            /\ log[k + 1].doc = log[k].doc

\* C39 witness: the presence check was delivered for a document with a
\* deviceMac and no deviceSignature, and the MAC itself was verified after it.
C39_Witness ==
    \E k \in Positions :
        /\ log[k].check = CheckMacPresent
        /\ docs[log[k].doc].deviceSigned.deviceAuth = [deviceSignature |-> FALSE, deviceMac |-> TRUE]
        /\ \E j \in Positions : j > k /\ log[j].check = CheckDeviceMac
====
